---- MODULE Spec2Model ----
(***************************************************************************)
(* Android Auto head-unit protocol core of OCTAVE                          *)
(* (backend/android_auto): the frame codec and the message assembler of    *)
(* message.py, and the connection orchestrator of manager.py together      *)
(* with the parts of the USB and TCP transports it drives.                 *)
(*                                                                         *)
(* Bytes are the integers 0..255, byte strings are sequences of bytes.     *)
(***************************************************************************)
EXTENDS Integers, Sequences, FiniteSets, TLC

(***************************************************************************)
(* Bounds of the model                                                     *)
(***************************************************************************)
\* most application payload bytes in one encoded byte stream
MaxPayload == 6
\* largest max_frame_size handed to create_frame_data
MaxFrameSize == 3
\* most messages encoded into one byte stream
MaxMsgs == 2
\* most signals waiting in the main thread's event queue
MaxQueue == 2
\* most things the environment does in one run: calls by the application,
\* connections made by a transport, frames sent by the phone
MaxStimuli == 4
\* most inbound flights a TLS engine takes to finish its handshake
MaxExchanges == 2
\* most bytes the phone has in flight to the transport
MaxWire == 13
\* most bytes in flight that a read of the transport leaves unread
MaxShort == 1
\* most bytes that follow a serialized header handed to from_bytes
MaxTail == 4
\* most connections one TCPTransport makes
MaxConns == 2
\* most reads that return data counted on one connection
MaxReceived == 1
\* most USBDevice objects one USBTransport creates
MaxObjects == 3
\* most connections, and most chunks read, in a session over TCP
MaxSession == 6
\* longest payload of a message whose frame run is interleaved with another
MaxRun == 3
\* most calls made on an SSL handler
MaxCalls == 6
\* most frames in a stream with frames that do not parse
MaxPieces == 3
\* most connections reported to a manager whose timer is followed
MaxConnections == 3
\* longest data handed to TCPTransport.write
MaxData == 3

(***************************************************************************)
(* constants.py                                                            *)
(***************************************************************************)
MIDDLE == 0
FIRST == 1
LAST == 2
BULK == 3

PLAIN == 0
ENCRYPTED == 8

SPECIFIC == 0
CONTROL == 4

CH_CONTROL == 0
CH_INPUT == 1
CH_SENSOR == 2
CH_VIDEO == 3
CH_MEDIA_AUDIO == 4
CH_SPEECH_AUDIO == 5
CH_SYSTEM_AUDIO == 6
CH_NAVIGATION == 9
CH_PHONE_STATUS == 10
CH_MEDIA_STATUS == 11

VERSION_REQUEST == 1
VERSION_RESPONSE == 2
SSL_HANDSHAKE == 3
AUTH_COMPLETE == 4
SERVICE_DISCOVERY_REQUEST == 5
SERVICE_DISCOVERY_RESPONSE == 6
CHANNEL_OPEN_REQUEST == 7
PING_REQUEST == 10
PING_RESPONSE == 11

\* None: the absent value of an Optional field
None == -1

(***************************************************************************)
(* struct.pack / struct.unpack, big-endian                                 *)
(***************************************************************************)
PackH(x) == << (x \div 256) % 256, x % 256 >>

UnpackH(b) == b[1] * 256 + b[2]

PackI(x) == << (x \div 16777216) % 256, (x \div 65536) % 256,
               (x \div 256) % 256, x % 256 >>

UnpackI(b) == b[1] * 16777216 + b[2] * 65536 + b[3] * 256 + b[4]

\* data[i:j] of Python (0-based, j exclusive, clipped to the length)
Slice(data, i, j) ==
    LET hi == IF j < Len(data) THEN j ELSE Len(data)
    IN  IF i >= hi THEN << >> ELSE SubSeq(data, i + 1, hi)

\* data[i:]
From(data, i) == Slice(data, i, Len(data))

RECURSIVE Join(_)
\* b''.join(frames)
Join(frames) ==
    IF frames = << >> THEN << >> ELSE Head(frames) \o Join(Tail(frames))

(***************************************************************************)
(* FrameHeader                                                             *)
(***************************************************************************)
\* from_bytes taking every FIRST header with 8 bytes at hand as extended
FromBytesNoSizeTest(data) ==
    LET flags == data[2]
        ftype == flags % 4
        fsize == UnpackH(Slice(data, 2, 4))
        extended == ftype = FIRST /\ Len(data) >= 8
    IN  [ channel_id |-> data[1],
          frame_type |-> ftype,
          message_type |-> IF (flags \div 4) % 2 = 1 THEN CONTROL ELSE SPECIFIC,
          encryption_type |-> IF (flags \div 8) % 2 = 1 THEN ENCRYPTED ELSE PLAIN,
          frame_size |-> fsize,
          total_size |-> IF extended THEN UnpackI(Slice(data, 4, 8)) ELSE None,
          consumed |-> IF extended THEN 8 ELSE 4 ]

\* FrameHeader.from_bytes on data with len(data) >= 4: (header, consumed)
FromBytes(data) ==
    LET flags == data[2]
        ftype == flags % 4
        fsize == UnpackH(Slice(data, 2, 4))
        potential == IF Len(data) >= 8 THEN UnpackI(Slice(data, 4, 8)) ELSE None
        extended == ftype = FIRST /\ Len(data) >= 8 /\ potential >= fsize
    IN  [ channel_id |-> data[1],
          frame_type |-> ftype,
          message_type |-> IF (flags \div 4) % 2 = 1 THEN CONTROL ELSE SPECIFIC,
          encryption_type |-> IF (flags \div 8) % 2 = 1 THEN ENCRYPTED ELSE PLAIN,
          frame_size |-> fsize,
          total_size |-> IF extended THEN potential ELSE None,
          consumed |-> IF extended THEN 8 ELSE 4 ]

\* to_bytes with the bits of the message type and the encryption swapped
ToBytesSwappedBits(h) ==
    LET flags == h.frame_type
                 + (IF h.message_type = CONTROL THEN 8 ELSE 0)
                 + (IF h.encryption_type = ENCRYPTED THEN 4 ELSE 0)
    IN  << h.channel_id, flags >> \o PackH(h.frame_size)
        \o (IF h.total_size # None THEN PackI(h.total_size) ELSE << >>)

\* FrameHeader.to_bytes
ToBytes(h) ==
    LET flags == h.frame_type
                 + (IF h.message_type = CONTROL THEN 4 ELSE 0)
                 + (IF h.encryption_type = ENCRYPTED THEN 8 ELSE 0)
    IN  << h.channel_id, flags >> \o PackH(h.frame_size)
        \o (IF h.total_size # None THEN PackI(h.total_size) ELSE << >>)

(***************************************************************************)
(* Message                                                                 *)
(***************************************************************************)
Msg(ch, id, payload, enc) ==
    [ channel_id |-> ch, message_id |-> id, payload |-> payload, encrypted |-> enc ]

RECURSIVE Chunks(_, _)
\* [data[i:i+n] for i in range(0, len(data), n)]
Chunks(data, n) ==
    IF data = << >> THEN << >>
    ELSE << Slice(data, 0, n) >> \o Chunks(From(data, n), n)

\* Message.to_frames
ToFrames(m, max_frame_size) ==
    LET data == PackH(m.message_id) \o m.payload
    IN  IF Len(data) <= max_frame_size THEN << data >>
        ELSE Chunks(data, max_frame_size)

RECURSIVE SumLen(_)
SumLen(frames) ==
    IF frames = << >> THEN 0 ELSE Len(Head(frames)) + SumLen(Tail(frames))

\* the frame type create_frame_data gives frame i (1-based) of n
FrameTypeOf(i, n) ==
    IF i = 1 /\ i = n THEN BULK
    ELSE IF i = 1 THEN FIRST
    ELSE IF i = n THEN LAST
    ELSE MIDDLE

\* the header create_frame_data builds for frame i of frames
HeaderOf(m, frames, i) ==
    [ channel_id |-> m.channel_id,
      frame_type |-> FrameTypeOf(i, Len(frames)),
      encryption_type |-> IF m.encrypted THEN ENCRYPTED ELSE PLAIN,
      message_type |-> SPECIFIC,
      frame_size |-> Len(frames[i]),
      total_size |-> IF Len(frames) > 1 /\ i = 1 THEN SumLen(frames) ELSE None ]

RECURSIVE FrameDataFrom(_, _, _)
FrameDataFrom(m, frames, i) ==
    IF i > Len(frames) THEN << >>
    ELSE ToBytes(HeaderOf(m, frames, i)) \o frames[i] \o FrameDataFrom(m, frames, i + 1)

\* Message.create_frame_data
CreateFrameData(m, max_frame_size) ==
    FrameDataFrom(m, ToFrames(m, max_frame_size), 1)

\* Message.from_frames: the message, or ValueError when fewer than 2 bytes
FromFrames(ch, frames, enc) ==
    LET data == Join(frames)
    IN  IF Len(data) < 2 THEN [ tag |-> "error" ]
        ELSE [ tag |-> "msg",
               msg |-> Msg(ch, UnpackH(Slice(data, 0, 2)), From(data, 2), enc) ]

(***************************************************************************)
(* MessageAssembler                                                        *)
(***************************************************************************)
\* the dict _current_frames with key ch set to v
DictSet(d, ch, v) == [ c \in DOMAIN d \cup {ch} |-> IF c = ch THEN v ELSE d[c] ]

\* the dict _current_frames without key ch
DictPop(d, ch) == [ c \in DOMAIN d \ {ch} |-> d[c] ]

EmptyDict == [ c \in {} |-> << >> ]

\* MessageAssembler._try_extract_message on (_buffer, _current_frames):
\* tag "msg" with a Message, "none" for a None result, "error" for ValueError
TryExtractMessage(buf, cf) ==
    IF Len(buf) < 4 THEN [ tag |-> "none", buffer |-> buf, frames |-> cf ]
    ELSE
      LET h == FromBytes(buf)
          total_frame_size == h.consumed + h.frame_size
      IN  IF Len(buf) < total_frame_size
          THEN [ tag |-> "none", buffer |-> buf, frames |-> cf ]
          ELSE
            LET payload == Slice(buf, h.consumed, total_frame_size)
                nbuf == From(buf, total_frame_size)
                ch == h.channel_id
                enc == h.encryption_type = ENCRYPTED
            IN  CASE h.frame_type = BULK ->
                       LET r == FromFrames(ch, << payload >>, enc)
                       IN  IF r.tag = "msg"
                           THEN [ tag |-> "msg", msg |-> r.msg, buffer |-> nbuf, frames |-> cf ]
                           ELSE [ tag |-> "error", buffer |-> nbuf, frames |-> cf ]
                  [] h.frame_type = FIRST ->
                       [ tag |-> "none", buffer |-> nbuf,
                         frames |-> DictSet(cf, ch, << payload >>) ]
                  [] h.frame_type = MIDDLE ->
                       [ tag |-> "none", buffer |-> nbuf,
                         frames |-> IF ch \in DOMAIN cf
                                    THEN DictSet(cf, ch, Append(cf[ch], payload))
                                    ELSE cf ]
                  [] OTHER ->
                       IF ch \in DOMAIN cf
                       THEN LET r == FromFrames(ch, Append(cf[ch], payload), enc)
                            IN  IF r.tag = "msg"
                                THEN [ tag |-> "msg", msg |-> r.msg, buffer |-> nbuf,
                                       frames |-> DictPop(cf, ch) ]
                                ELSE [ tag |-> "error", buffer |-> nbuf,
                                       frames |-> DictPop(cf, ch) ]
                       ELSE [ tag |-> "none", buffer |-> nbuf, frames |-> cf ]

RECURSIVE FeedLoop(_, _, _)
\* the while loop of MessageAssembler.feed
FeedLoop(buf, cf, messages) ==
    LET r == TryExtractMessage(buf, cf)
    IN  CASE r.tag = "msg" -> FeedLoop(r.buffer, r.frames, Append(messages, r.msg))
          [] r.tag = "none" ->
               [ buffer |-> r.buffer, frames |-> r.frames, messages |-> messages ]
          [] OTHER ->
               LET skipped == From(r.buffer, 1)
               IN  IF skipped = << >>
                   THEN [ buffer |-> skipped, frames |-> r.frames, messages |-> messages ]
                   ELSE FeedLoop(skipped, r.frames, messages)

\* MessageAssembler.feed(data) on an assembler (_buffer, _current_frames)
Feed(buf, cf, data) == FeedLoop(buf \o data, cf, << >>)

(***************************************************************************)
(* AndroidAutoManager and the transport code it runs synchronously.        *)
(* Everything the main thread mutates is threaded through a record s; the  *)
(* actions below read it from the variables and write it back.             *)
(***************************************************************************)
\* Message.create_frame_data's default max_frame_size
DefaultMaxFrameSize == 16384

\* USBTransport._max_aoap_fails
MaxAoapFails == 3

\* TCPTransport._max_reconnect_attempts
MaxReconnectAttempts == 10

\* max_errors of TCPTransport._read_loop
MaxReadErrors == 5

\* max_errors of USBTransport._read_loop
MaxUsbReadErrors == 5

\* the default of retries in USBTransport.write
WriteRetries == 3

\* AndroidAutoManager._set_state
SetState(s, st) == [ s EXCEPT !.state = st ]

\* AndroidAutoManager.error.emit(msg): the notifications of the running step
EmitError(s, msg) == [ s EXCEPT !.errorsOut = Append(@, msg) ]

\* AndroidAutoManager._send_message: the write handed to the active
\* transport, or the exception that USBTransport.write lets through
SendMessage(s, msg) ==
    IF s.activeTransport = "none" THEN s
    ELSE [ s EXCEPT !.sentOut = Append(@, [ via |-> s.activeTransport,
                                            data |-> CreateFrameData(msg, DefaultMaxFrameSize) ]),
                    !.exc = s.writeRaises ]

\* AndroidAutoManager._on_transport_error
OnTransportError(s, msg) == EmitError(SetState(s, "error"), msg)

\* AndroidAutoManager._on_usb_state_changed
OnUsbStateChanged(s, st) ==
    IF s.transportMode # "usb" THEN s
    ELSE IF st = "disconnected" THEN SetState(s, "disconnected")
    ELSE IF st = "detected" THEN SetState(s, "connecting")
    ELSE s

\* AndroidAutoManager._on_tcp_state_changed
OnTcpStateChanged(s, st) ==
    IF s.transportMode # "tcp" THEN s
    ELSE IF st = "disconnected" THEN SetState(s, "disconnected")
    ELSE IF st = "connecting" THEN SetState(s, "connecting")
    ELSE s

\* _on_device_disconnected without the reset of _ssl_established
OnDeviceDisconnectedKeepsTls(s) ==
    SetState([ s EXCEPT !.servicesDiscovered = FALSE,
                        !.videoChannelOpen = FALSE,
                        !.audioChannelsOpen = {} ],
             "disconnected")

\* AndroidAutoManager._on_device_disconnected
OnDeviceDisconnected(s) ==
    SetState([ s EXCEPT !.sslEstablished = FALSE,
                        !.servicesDiscovered = FALSE,
                        !.videoChannelOpen = FALSE,
                        !.audioChannelsOpen = {} ],
             "disconnected")

\* USBTransport._disconnect_device called on the main thread: it waits for
\* _lock, for ever when the monitor thread is stuck holding it; its signals
\* reach the manager's slots directly
UsbDisconnectDevice(s) ==
    IF s.usbLock = "stuck" THEN [ s EXCEPT !.blocked = TRUE ]
    ELSE IF s.usbDevice = "none" THEN s
    ELSE OnDeviceDisconnected(
             OnUsbStateChanged([ s EXCEPT !.usbDevice = "none" ], "disconnected"))

\* USBTransport._handle_stale_device called on the main thread
HandleStaleDevice(s) ==
    LET s1 == [ s EXCEPT !.aoapFailCount = @ + 1 ]
        s2 == IF s1.aoapFailCount >= MaxAoapFails
              THEN OnTransportError(s1, "usb: phone not responding")
              ELSE s1
    IN  UsbDisconnectDevice(s2)

\* AndroidAutoManager._on_version_timeout
OnVersionTimeout(s) ==
    IF s.state = "ssl_handshake" /\ ~s.sslEstablished
    THEN IF s.transportMode = "usb"
         THEN HandleStaleDevice(EmitError(s, "phone not responding: replug"))
         ELSE EmitError(s, "phone not responding: start head unit server")
    ELSE s

\* AndroidAutoManager._send_version_request
SendVersionRequest(s) ==
    SendMessage(s, Msg(CH_CONTROL, VERSION_REQUEST, PackH(1) \o PackH(1), FALSE))

\* AndroidAutoManager._initiate_ssl_handshake
InitiateSslHandshake(s) ==
    LET s1 == SendVersionRequest(s)
    IN  IF s1.exc THEN s1 ELSE [ s1 EXCEPT !.versionTimer = "active" ]

\* AndroidAutoManager._on_device_connected
OnDeviceConnected(s) == InitiateSslHandshake(SetState(s, "ssl_handshake"))

\* SSLHandler.initialize: ok says whether the certificates and the context
\* could be set up, need is the number of inbound flights the new TLS engine
\* takes before do_handshake succeeds; _handshake_complete is left as it is
SslInitialize(s, ok, need) ==
    IF ok THEN [ s EXCEPT !.sslObject = TRUE, !.hsNeed = need, !.hsHello = FALSE ]
    ELSE s

\* SSLHandler.process_handshake_data: the handler after the call, whether it
\* raised, the outgoing bytes and the completion flag returned
ProcessHandshakeData(s, data) ==
    IF ~s.sslObject
    THEN [ s |-> s, raised |-> TRUE, outgoing |-> << >>, complete |-> FALSE ]
    ELSE
      LET fed == data # << >> /\ s.hsNeed > 0
          need == IF fed THEN s.hsNeed - 1 ELSE s.hsNeed
          done == need = 0
          outgoing == IF ~s.hsHello THEN << 1 >>
                      ELSE IF fed THEN << 2 >>
                      ELSE << >>
          s1 == [ s EXCEPT !.hsNeed = need, !.hsHello = TRUE,
                           !.handshakeComplete = @ \/ done ]
      IN  [ s |-> s1, raised |-> FALSE, outgoing |-> outgoing,
            complete |-> s1.handshakeComplete ]

\* AndroidAutoManager._send_service_discovery_request
SendServiceDiscoveryRequest(s) ==
    SendMessage(s, Msg(CH_CONTROL, SERVICE_DISCOVERY_REQUEST, << >>, s.sslEstablished))

\* AndroidAutoManager._send_auth_complete
SendAuthComplete(s) ==
    LET s1 == SendMessage(s, Msg(CH_CONTROL, AUTH_COMPLETE, << >>, FALSE))
    IN  IF s1.exc THEN s1
        ELSE SendServiceDiscoveryRequest(SetState(s1, "service_discovery"))

\* AndroidAutoManager._on_ssl_handshake_complete
OnSslHandshakeComplete(s) == SendAuthComplete([ s EXCEPT !.sslEstablished = TRUE ])

\* the common body of _do_ssl_handshake (data = b'') and _handle_ssl_data:
\* a try block, and the except clause for whatever it raises
SslHandshakeStep(s, data) ==
    LET r == ProcessHandshakeData(s, data)
        s1 == IF r.outgoing # << >>
              THEN SendMessage(r.s, Msg(CH_CONTROL, SSL_HANDSHAKE, r.outgoing, FALSE))
              ELSE r.s
        try == IF r.raised THEN [ s EXCEPT !.exc = TRUE ]
               ELSE IF s1.exc THEN s1
               ELSE IF r.complete THEN OnSslHandshakeComplete(s1)
               ELSE s1
    IN  IF try.exc
        THEN SetState(EmitError([ try EXCEPT !.exc = FALSE ], "ssl handshake failed"),
                      "error")
        ELSE try

\* AndroidAutoManager._do_ssl_handshake
DoSslHandshake(s) == SslHandshakeStep(s, << >>)

\* AndroidAutoManager._handle_ssl_data
HandleSslData(s, message) == SslHandshakeStep(s, message.payload)

\* AndroidAutoManager._handle_version_response_raw
HandleVersionResponseRaw(s, ok, need) ==
    LET s1 == IF s.versionTimer # "none" THEN [ s EXCEPT !.versionTimer = "none" ] ELSE s
    IN  IF ~ok
        THEN SetState(EmitError(s1, "failed to initialize ssl"), "error")
        ELSE DoSslHandshake(SetState(SslInitialize(s1, ok, need), "ssl_handshake"))

\* AndroidAutoManager._handle_version_response
HandleVersionResponse(s, message) == s

\* AndroidAutoManager._request_channel_open: nothing is sent when the
\* generated protobuf package cannot be imported
RequestChannelOpen(s, channel_id) ==
    IF s.protoAvailable
    THEN [ SendMessage(s, Msg(CH_CONTROL, CHANNEL_OPEN_REQUEST, << >>, s.sslEstablished))
           EXCEPT !.exc = FALSE ]
    ELSE s

\* AndroidAutoManager._handle_service_discovery_response
HandleServiceDiscoveryResponse(s, message) ==
    SetState(RequestChannelOpen([ s EXCEPT !.servicesDiscovered = TRUE ], CH_VIDEO),
             "connected")

\* AndroidAutoManager._handle_ping_request
HandlePingRequest(s, message) ==
    SendMessage(s, Msg(CH_CONTROL, PING_RESPONSE, message.payload, message.encrypted))

\* AndroidAutoManager._handle_control_message
HandleControlMessage(s, message) ==
    CASE message.message_id = VERSION_RESPONSE -> HandleVersionResponse(s, message)
      [] message.message_id = SSL_HANDSHAKE -> HandleSslData(s, message)
      [] message.message_id = SERVICE_DISCOVERY_RESPONSE ->
             HandleServiceDiscoveryResponse(s, message)
      [] message.message_id = PING_REQUEST -> HandlePingRequest(s, message)
      [] OTHER -> s

\* a payload emitted to a sink: videoFrameReady, audioDataReady (with the
\* channel as stream type), navigationUpdate, phoneStatusChanged,
\* mediaStatusChanged
Forward(s, sink, stream, payload) ==
    [ s EXCEPT !.forwarded = Append(@, [ sink |-> sink, stream |-> stream,
                                         payload |-> payload ]) ]

\* AndroidAutoManager._handle_video_data
HandleVideoData(s, message) ==
    LET s1 == Forward(s, "video", CH_VIDEO, message.payload)
    IN  IF s1.state # "streaming" THEN SetState(s1, "streaming") ELSE s1

\* AndroidAutoManager._handle_audio_data
HandleAudioData(s, message) == Forward(s, "audio", message.channel_id, message.payload)

\* AndroidAutoManager._handle_navigation_data
HandleNavigationData(s, message) ==
    Forward(s, "navigation", message.channel_id, message.payload)

\* AndroidAutoManager._handle_phone_status
HandlePhoneStatus(s, message) ==
    Forward(s, "phone_status", message.channel_id, message.payload)

\* AndroidAutoManager._handle_media_status
HandleMediaStatus(s, message) ==
    Forward(s, "media_status", message.channel_id, message.payload)

\* the channels _setup_channel_handlers registers a handler for
RegisteredChannels ==
    { CH_CONTROL, CH_VIDEO, CH_MEDIA_AUDIO, CH_SPEECH_AUDIO, CH_SYSTEM_AUDIO,
      CH_NAVIGATION, CH_PHONE_STATUS, CH_MEDIA_STATUS, CH_INPUT }

\* the handler _setup_channel_handlers registers for the channel of message;
\* that of the input channel only logs
Handler(s, message) ==
    CASE message.channel_id = CH_CONTROL -> HandleControlMessage(s, message)
      [] message.channel_id = CH_VIDEO -> HandleVideoData(s, message)
      [] message.channel_id \in { CH_MEDIA_AUDIO, CH_SPEECH_AUDIO, CH_SYSTEM_AUDIO } ->
            HandleAudioData(s, message)
      [] message.channel_id = CH_NAVIGATION -> HandleNavigationData(s, message)
      [] message.channel_id = CH_PHONE_STATUS -> HandlePhoneStatus(s, message)
      [] message.channel_id = CH_MEDIA_STATUS -> HandleMediaStatus(s, message)
      [] OTHER -> s

\* what route did with a message
Routed(message, outcome) == [ ch |-> message.channel_id, outcome |-> outcome ]

\* route without the try around the handler
RoutePropagates(s, message) ==
    IF message.channel_id \in RegisteredChannels
    THEN LET r == Handler(s, message)
         IN  [ r EXCEPT !.routed = Append(@, Routed(message, IF r.exc THEN "raised"
                                                                     ELSE "handled")) ]
    ELSE [ s EXCEPT !.routed = Append(@, Routed(message, "dropped")) ]

\* MessageRouter.route
Route(s, message) ==
    IF message.channel_id \in RegisteredChannels
    THEN LET r == Handler(s, message)
         IN  [ r EXCEPT !.exc = FALSE,
                        !.routed = Append(@, Routed(message, IF r.exc THEN "raised"
                                                                     ELSE "handled")) ]
    ELSE [ s EXCEPT !.routed = Append(@, Routed(message, "dropped")) ]

RECURSIVE RouteAll(_, _)
\* the for loop of _on_data_received, left when a call of route raises
RouteAll(s, messages) ==
    IF messages = << >> \/ s.exc THEN s
    ELSE RouteAll(Route(s, Head(messages)), Tail(messages))

\* the test of _on_data_received for a version response at the head of a chunk
IsRawVersionResponse(data) ==
    /\ Len(data) >= 6
    /\ data[1] = 0
    /\ UnpackH(Slice(data, 4, 6)) = VERSION_RESPONSE

\* AndroidAutoManager._on_data_received
OnDataReceived(s, data, ok, need) ==
    IF IsRawVersionResponse(data)
    THEN HandleVersionResponseRaw(s, ok, need)
    ELSE LET r == Feed(s.buffer, s.currentFrames, data)
         IN  RouteAll([ s EXCEPT !.buffer = r.buffer, !.currentFrames = r.frames,
                                 !.fed = Append(@, data) ],
                      r.messages)

(***************************************************************************)
(* State                                                                   *)
(***************************************************************************)
VARIABLES
    \* AndroidAutoManager: _state, _running, _transport_mode, _active_transport,
    \* _ssl_established, _services_discovered, _video_channel_open,
    \* _audio_channels_open, _version_response_timer
    state, running, transportMode, activeTransport, sslEstablished,
    servicesDiscovered, videoChannelOpen, audioChannelsOpen, versionTimer,
    \* SSLHandler: _ssl_object set, _handshake_complete, and the TLS engine
    \* (inbound flights still needed, ClientHello already produced)
    sslObject, handshakeComplete, hsNeed, hsHello,
    \* MessageAssembler._buffer, MessageAssembler._current_frames
    buffer, currentFrames,
    \* USBTransport: _running, _device, _aoap_fail_count, and _lock: free
    \* between the steps below, or stuck with its holder waiting for it
    usbRunning, usbDevice, aoapFailCount, usbLock,
    \* the main thread waits for a lock that is never released
    blocked,
    \* TCPTransport: _running, _state, _auto_reconnect, whether the thread of
    \* _connection_loop is in its loop, and its local attempt
    tcpRunning, tcpState, tcpAutoReconnect, tcpLoop, attempt,
    \* the signals queued for the main thread, the bytes the phone has sent
    \* and the transport has not read, what is left of MaxStimuli
    events, wire, budget,
    \* of the last step: the slot or call the main thread ran, the writes it
    \* handed to the active transport, the error notifications it emitted,
    \* the chunks it handed to MessageAssembler.feed
    lastOp, sentOut, errorsOut, fed,
    \* and what MessageRouter.route did with each message handed to it
    routed,
    \* and the payloads it emitted to the video, audio, navigation,
    \* phone-status and media-status sinks
    forwarded,
    \* the scripted connection: how far the phone has followed the script
    \* version response, TLS flights, service-discovery response since the
    \* connection was reported, the TLS flights it sent and the writes the
    \* manager handed to the transport meanwhile
    scripted,
    \* the codec under test: the messages encoded, the max_frame_size used,
    \* the bytes put in front of the encoding, the bytes not yet fed, the
    \* Messages feed returned so far, and the number of feed calls (2 = more)
    srcMsgs, mfs, prefix, rest, out, nFeeds,
    \* the header codec under test: the FrameHeader serialized, the bytes that
    \* follow it, and what from_bytes returned for the two together (each kept
    \* as a sequence that is empty while there is none)
    hdr, hdrTail, parsed,
    \* TCPTransport on its own, with its connection thread and its read thread:
    \* _running, _auto_reconnect, _state, _socket, the position of each thread,
    \* the locals attempt and error_count, and what the transport has emitted
    tcpTransport,
    \* USBTransport on its own, with its monitor thread, its read thread, the
    \* main thread calling write and stop, and the devices on the bus:
    \* _running, _device (a USBDevice object or None), _aoap_fail_count, whether
    \* a scan pass has sat out the 10 s back-off with that count, _lock,
    \* the position of each thread, and what the last step emitted
    usbTransport,
    \* SSLHandler on its own: the last call made on it, with the handler as
    \* the call found it and what the call returned, and the number of calls
    sslCall,
    \* MessageAssembler.feed taken one pass of its while loop at a time:
    \* whether a call is in its loop, the length of _buffer when the loop was
    \* entered, the passes made, how the last one ended and whether it took a
    \* MIDDLE or LAST frame of a channel with nothing pending
    feedCall,
    \* the connections reported to the manager so far, and the one whose
    \* slot created the QTimer now pending (0 while none is pending)
    timerOwner,
    \* TCPTransport.write taken one send at a time: the transport's _state
    \* and _socket, the length of data, total_sent, the sends made, the
    \* outcome of the last one, what the call returned, and what the last
    \* step was
    writeCall

asmVars == << buffer, currentFrames >>
codecVars == << srcMsgs, mfs, prefix, rest, out, nFeeds, hdr, hdrTail, parsed >>
mgrVars == << state, running, transportMode, activeTransport, sslEstablished,
              servicesDiscovered, videoChannelOpen, audioChannelsOpen, versionTimer,
              sslObject, handshakeComplete, hsNeed, hsHello,
              usbRunning, usbDevice, aoapFailCount, usbLock, blocked,
              tcpRunning, tcpState,
              tcpAutoReconnect, tcpLoop, attempt,
              sentOut, errorsOut, fed, routed, forwarded >>
envVars == << events, wire, budget, lastOp, scripted >>
unitVars == << tcpTransport, usbTransport, sslCall, feedCall, timerOwner, writeCall >>
vars == << asmVars, codecVars, mgrVars, envVars, unitVars >>

\* the state after AndroidAutoManager.__init__ (with both transports and the
\* SSL handler constructed), nothing started
MgrInit ==
    /\ state = "disconnected"
    /\ running = FALSE
    /\ transportMode = "usb"
    /\ activeTransport = "none"
    /\ sslEstablished = FALSE
    /\ servicesDiscovered = FALSE
    /\ videoChannelOpen = FALSE
    /\ audioChannelsOpen = {}
    /\ versionTimer = "none"
    /\ sslObject = FALSE
    /\ handshakeComplete = FALSE
    /\ hsNeed = 0
    /\ hsHello = FALSE
    /\ usbRunning = FALSE
    /\ usbDevice = "none"
    /\ aoapFailCount = 0
    /\ usbLock = "free"
    /\ blocked = FALSE
    /\ tcpRunning = FALSE
    /\ tcpState = "disconnected"
    /\ tcpAutoReconnect = TRUE
    /\ tcpLoop = FALSE
    /\ attempt = 0
    /\ sentOut = << >>
    /\ errorsOut = << >>
    /\ fed = << >>
    /\ routed = << >>
    /\ forwarded = << >>

\* no codec experiment under way
CodecIdle ==
    /\ srcMsgs = << >>
    /\ mfs = 0
    /\ prefix = << >>
    /\ rest = << >>
    /\ out = << >>
    /\ nFeeds = 0
    /\ hdr = << >>
    /\ hdrTail = << >>
    /\ parsed = << >>

\* TCPTransport.__init__; no thread exists, nothing has been emitted
TcpTransportInit ==
    [ running |-> FALSE, autoReconnect |-> TRUE, state |-> "disconnected",
      socket |-> "none", connLoop |-> "none", attempt |-> 0,
      readLoop |-> "none", errorCount |-> 0, stopping |-> FALSE,
      conns |-> 0, lastRecv |-> "none", disconnects |-> 0, received |-> 0 ]

\* self._device is None
NoDevice == [ obj |-> 0, aoap |-> FALSE, state |-> "none" ]

\* no call of USBTransport.write under way
NoWrite == [ attempt |-> 0, transfers |-> 0, halts |-> 0, recoveries |-> 0,
             resets |-> 0, outcome |-> "none", ret |-> "none" ]

\* USBTransport.__init__; no thread exists, an empty bus
UsbTransportInit ==
    [ running |-> FALSE, device |-> NoDevice, objects |-> 0, started |-> {},
      failCount |-> 0, waited |-> FALSE, lock |-> "free", readLoop |-> "none",
      errorCount |-> 0, mainBlocked |-> FALSE, write |-> NoWrite,
      bus |-> [ fresh |-> "none", aoap |-> FALSE ],
      lastStep |-> "none", emitted |-> << >> ]

\* no call made on the SSL handler yet
NoCall ==
    [ op |-> "none", data |-> << >>, initialized |-> FALSE, hello |-> FALSE,
      ret |-> FALSE, raised |-> FALSE, outgoing |-> << >>, complete |-> FALSE,
      calls |-> 0 ]

\* no connection reported, no timer pending
NoTimer == [ conn |-> 0, armedFor |-> 0 ]

\* no call of TCPTransport.write made
NoSend ==
    [ pc |-> "idle", state |-> "disconnected", socket |-> FALSE, size |-> 0,
      totalSent |-> 0, sends |-> 0, last |-> "none", ret |-> "none",
      step |-> "none" ]

\* no call of feed under way
NoFeed == [ pc |-> "idle", size |-> 0, passes |-> 0, last |-> "none", orphan |-> FALSE ]

UnitIdle ==
    /\ tcpTransport = TcpTransportInit
    /\ usbTransport = UsbTransportInit
    /\ sslCall = NoCall
    /\ feedCall = NoFeed
    /\ timerOwner = NoTimer
    /\ writeCall = NoSend

\* the scripted connection not under way
OffScript == [ stage |-> "off", flights |-> 0, sent |-> << >> ]

\* no phone, nothing queued
EnvIdle ==
    /\ events = << >>
    /\ wire = << >>
    /\ budget = 0
    /\ lastOp = "none"
    /\ scripted = OffScript

(***************************************************************************)
(* The codec driven as a byte stream: encode, cut into chunks, feed        *)
(***************************************************************************)
\* payload bytes 1, 2, ..., n
PayloadOf(n) == [ i \in 1..n |-> i ]

\* the messages the streams are built from: a plain control-channel ping
\* and an encrypted video-channel message with a two-byte message id
SrcMessages ==
    { Msg(CH_CONTROL, PING_REQUEST, PayloadOf(n), FALSE) : n \in 0..MaxPayload }
    \cup { Msg(CH_VIDEO, 258, PayloadOf(n), TRUE) : n \in 0..MaxPayload }

RECURSIVE PayloadSum(_)
PayloadSum(ms) ==
    IF ms = << >> THEN 0 ELSE Len(Head(ms).payload) + PayloadSum(Tail(ms))

SrcStreams ==
    { ms \in UNION { [ 1..n -> SrcMessages ] : n \in 1..MaxMsgs } :
        PayloadSum(ms) <= MaxPayload }

RECURSIVE Encode(_, _)
\* create_frame_data of every message, concatenated
Encode(ms, max_frame_size) ==
    IF ms = << >> THEN << >>
    ELSE CreateFrameData(Head(ms), max_frame_size) \o Encode(Tail(ms), max_frame_size)

CodecInit ==
    /\ MgrInit
    /\ EnvIdle
    /\ UnitIdle
    /\ buffer = << >>
    /\ currentFrames = EmptyDict
    /\ srcMsgs \in SrcStreams
    /\ mfs \in 2..MaxFrameSize
    /\ prefix \in IF Len(srcMsgs) = 1 THEN { << >>, << 255 >> } ELSE { << >> }
    /\ rest = prefix \o Encode(srcMsgs, mfs)
    /\ out = << >>
    /\ nFeeds = 0
    /\ hdr = << >>
    /\ hdrTail = << >>
    /\ parsed = << >>

\* one call feed(data) with the next k bytes of the stream
FeedChunk(k) ==
    LET r == Feed(buffer, currentFrames, Slice(rest, 0, k))
    IN  /\ buffer' = r.buffer
        /\ currentFrames' = r.frames
        /\ out' = out \o r.messages
        /\ rest' = From(rest, k)
        /\ nFeeds' = IF nFeeds < 2 THEN nFeeds + 1 ELSE nFeeds
        /\ UNCHANGED << srcMsgs, mfs, prefix, hdr, hdrTail, parsed, mgrVars, envVars, unitVars >>

CodecNext == \E k \in 1..Len(rest) : FeedChunk(k)

SpecCodec == CodecInit /\ [][CodecNext]_vars

(***************************************************************************)
(* C1  Round trip: a message whose payload is at most max_frame_size long, *)
(* encoded by create_frame_data and fed in one call to a fresh assembler,  *)
(* comes back as exactly one Message with the same channel_id, message_id  *)
(* and payload.                                                            *)
(***************************************************************************)
OneCallDone == rest = << >> /\ nFeeds = 1

C1_RoundTrip ==
    ( /\ OneCallDone
      /\ prefix = << >>
      /\ Len(srcMsgs) = 1
      /\ Len(srcMsgs[1].payload) <= mfs )
    => /\ Len(out) = 1
       /\ out[1].channel_id = srcMsgs[1].channel_id
       /\ out[1].message_id = srcMsgs[1].message_id
       /\ out[1].payload = srcMsgs[1].payload

(***************************************************************************)
(* C2  Partial delivery: once a valid encoded stream has been fed, however *)
(* it was cut into chunks, the Messages returned in total are those one    *)
(* feed call with the whole stream returns.                                *)
(***************************************************************************)
WholeFeed == Feed(<< >>, EmptyDict, Encode(srcMsgs, mfs)).messages

C2_PartialDelivery ==
    (rest = << >> /\ prefix = << >>) => out = WholeFeed

(***************************************************************************)
(* C3  Resync: the byte 0xFF followed by one valid BULK frame, fed to a    *)
(* fresh assembler, yields exactly the Message of that frame and leaves    *)
(* nothing in the buffer.                                                  *)
(***************************************************************************)
C3_Resync ==
    ( /\ OneCallDone
      /\ prefix = << 255 >>
      /\ Len(ToFrames(srcMsgs[1], mfs)) = 1 )
    => /\ out = << srcMsgs[1] >>
       /\ buffer = << >>

(***************************************************************************)
(* C15  Multi-frame split: a message whose payload is exactly 3 x          *)
(* max_frame_size bytes is split into a FIRST frame, MIDDLE frames and a   *)
(* LAST frame whose frame sizes sum to payload length + 2, only the FIRST  *)
(* frame carries the extended header, with total_size equal to that sum,   *)
(* and once the frames have been fed to a fresh assembler exactly one      *)
(* Message has come out.                                                   *)
(***************************************************************************)
\* the frame types of the frames create_frame_data writes for m
SplitTypes(m, max_frame_size) ==
    LET frames == ToFrames(m, max_frame_size)
    IN  [ i \in 1..Len(frames) |-> HeaderOf(m, frames, i).frame_type ]

\* FIRST, then MIDDLE frames (one at least), then LAST
FirstMiddleLast(types) ==
    /\ Len(types) >= 3
    /\ types[1] = FIRST
    /\ types[Len(types)] = LAST
    /\ \A i \in 2..(Len(types) - 1) : types[i] = MIDDLE

\* the stream is the encoding of one message with a payload of 3 x max_frame_size
TripleSplit ==
    /\ prefix = << >>
    /\ Len(srcMsgs) = 1
    /\ Len(srcMsgs[1].payload) = 3 * mfs

C15_TripleSplit ==
    (TripleSplit /\ rest = << >>)
    => LET m == srcMsgs[1]
           frames == ToFrames(m, mfs)
       IN  /\ FirstMiddleLast(SplitTypes(m, mfs))
           /\ SumLen(frames) = Len(m.payload) + 2
           /\ \A i \in 1..Len(frames) :
                 HeaderOf(m, frames, i).total_size
                   = IF i = 1 THEN SumLen(frames) ELSE None
           /\ Len(out) = 1

(***************************************************************************)
(* The header codec on its own: a FrameHeader is serialized, bytes follow  *)
(* it, and from_bytes is applied to the result                             *)
(***************************************************************************)
\* the frame_size values tried
HeaderSizes == { 0, 50, 100 }

\* the total_size values tried (None: short form)
HeaderTotals == { None, 50, 100, 150 }

\* the FrameHeader objects serialized
Headers ==
    [ channel_id : { CH_VIDEO },
      frame_type : { MIDDLE, FIRST, LAST, BULK },
      encryption_type : { PLAIN, ENCRYPTED },
      message_type : { SPECIFIC, CONTROL },
      frame_size : HeaderSizes,
      total_size : HeaderTotals ]

\* the bytes that follow the header
Tails == UNION { [ 1..n -> { 0, 50, 100 } ] : n \in 0..MaxTail }

HeaderInit ==
    /\ MgrInit
    /\ EnvIdle
    /\ UnitIdle
    /\ buffer = << >>
    /\ currentFrames = EmptyDict
    /\ srcMsgs = << >>
    /\ mfs = 0
    /\ prefix = << >>
    /\ rest = << >>
    /\ out = << >>
    /\ nFeeds = 0
    /\ hdr \in { << h >> : h \in Headers }
    /\ hdrTail \in Tails
    /\ parsed = << >>

\* FrameHeader.from_bytes(h.to_bytes() + tail)
ParseHeader ==
    /\ parsed = << >>
    /\ parsed' = << FromBytes(ToBytes(hdr[1]) \o hdrTail) >>
    /\ UNCHANGED << srcMsgs, mfs, prefix, rest, out, nFeeds, hdr, hdrTail,
                    asmVars, mgrVars, envVars, unitVars >>

HeaderNext == ParseHeader

SpecHeader == HeaderInit /\ [][HeaderNext]_vars

\* the bytes handed to from_bytes
HeaderData == ToBytes(hdr[1]) \o hdrTail

\* bytes 4..7 of data read as a big-endian unsigned 32-bit number
U32At4(data) == data[5] * 16777216 + data[6] * 65536 + data[7] * 256 + data[8]

(***************************************************************************)
(* C14  Header form: from_bytes takes a header as extended (8 bytes, with  *)
(* total_size) exactly when its frame type is FIRST, at least 8 bytes are  *)
(* at hand and bytes 4..7 read as a big-endian u32 are >= frame_size, and  *)
(* as short (4 bytes, no total_size) otherwise; so a FIRST frame with      *)
(* frame_size 100 followed by the u32 50 is short and those four bytes are *)
(* payload.                                                                *)
(***************************************************************************)
C14_HeaderForm ==
    parsed # << >>
    => LET d == HeaderData
           p == parsed[1]
           size == d[3] * 256 + d[4]
           first == d[2] % 4 = FIRST
           long == first /\ Len(d) >= 8 /\ U32At4(d) >= size
       IN  /\ p.consumed = IF long THEN 8 ELSE 4
           /\ p.total_size = IF long THEN U32At4(d) ELSE None
           /\ (first /\ size = 100 /\ Len(d) >= 8 /\ U32At4(d) = 50)
                => (p.consumed = 4 /\ p.total_size = None)

\* a FIRST header with frame_size 100, followed by the u32 50, was parsed
C14_ShortFirstParsed ==
    /\ parsed # << >>
    /\ hdr[1].frame_type = FIRST
    /\ hdr[1].frame_size = 100
    /\ hdr[1].total_size = None
    /\ hdrTail = << 0, 0, 0, 50 >>
    /\ parsed[1].consumed = 4

(***************************************************************************)
(* C16  Header round trip.  As claimed: for every FrameHeader h, short or  *)
(* extended, from_bytes(h.to_bytes() + payload) returns h and consumes     *)
(* len(h.to_bytes()) bytes.                                                *)
(***************************************************************************)
\* from_bytes gave back the header serialized and consumed just its bytes
RoundTrips ==
    LET h == hdr[1]
        p == parsed[1]
    IN  /\ p.channel_id = h.channel_id
        /\ p.frame_type = h.frame_type
        /\ p.encryption_type = h.encryption_type
        /\ p.message_type = h.message_type
        /\ p.frame_size = h.frame_size
        /\ p.total_size = h.total_size
        /\ p.consumed = Len(ToBytes(h))

C16_HeaderRoundTrip == parsed # << >> => RoundTrips

(***************************************************************************)
(* C16 as amended: from_bytes(h.to_bytes() + payload) returns h and        *)
(* consumes len(h.to_bytes()) bytes exactly when h is an extended FIRST    *)
(* header with total_size >= frame_size, or a short header that is not     *)
(* FIRST, or a short FIRST header followed by fewer than 4 bytes or by     *)
(* four bytes whose big-endian value is below frame_size.                  *)
(***************************************************************************)
Unambiguous ==
    LET h == hdr[1]
    IN  IF h.total_size # None
        THEN h.frame_type = FIRST /\ h.total_size >= h.frame_size
        ELSE \/ h.frame_type # FIRST
             \/ Len(hdrTail) < 4
             \/ UnpackI(hdrTail) < h.frame_size

C16_RoundTripWhenUnambiguous == parsed # << >> => (RoundTrips <=> Unambiguous)

\* an extended FIRST header with payload after it came back as it was
C16_ExtendedRoundTripped ==
    /\ parsed # << >>
    /\ hdr[1].frame_type = FIRST
    /\ hdr[1].total_size = 150
    /\ hdr[1].message_type = CONTROL
    /\ hdrTail # << >>
    /\ RoundTrips

(***************************************************************************)
(* The orchestrator with its transports and a phone                        *)
(***************************************************************************)

\* the manager, its SSL handler, its assembler and its transports as one
\* record; the writes, error notifications and feed calls are those of the
\* step being taken, protoAvailable says whether the imports of the
\* generated protobuf package succeed in it, writeRaises whether the writes
\* of the transport raise in it, and exc whether an exception is on its way
\* up the call stack
Cur ==
    [ state |-> state, running |-> running, transportMode |-> transportMode,
      activeTransport |-> activeTransport, sslEstablished |-> sslEstablished,
      servicesDiscovered |-> servicesDiscovered,
      videoChannelOpen |-> videoChannelOpen,
      audioChannelsOpen |-> audioChannelsOpen, versionTimer |-> versionTimer,
      sslObject |-> sslObject, handshakeComplete |-> handshakeComplete,
      hsNeed |-> hsNeed, hsHello |-> hsHello,
      buffer |-> buffer, currentFrames |-> currentFrames,
      usbRunning |-> usbRunning, usbDevice |-> usbDevice,
      aoapFailCount |-> aoapFailCount, usbLock |-> usbLock, blocked |-> blocked,
      tcpRunning |-> tcpRunning, tcpState |-> tcpState,
      tcpAutoReconnect |-> tcpAutoReconnect, tcpLoop |-> tcpLoop,
      attempt |-> attempt,
      protoAvailable |-> TRUE, writeRaises |-> FALSE, exc |-> FALSE,
      sentOut |-> << >>, errorsOut |-> << >>, fed |-> << >>, routed |-> << >>,
      forwarded |-> << >> ]

\* the record written back
Commit(s) ==
    /\ state' = s.state
    /\ running' = s.running
    /\ transportMode' = s.transportMode
    /\ activeTransport' = s.activeTransport
    /\ sslEstablished' = s.sslEstablished
    /\ servicesDiscovered' = s.servicesDiscovered
    /\ videoChannelOpen' = s.videoChannelOpen
    /\ audioChannelsOpen' = s.audioChannelsOpen
    /\ versionTimer' = s.versionTimer
    /\ sslObject' = s.sslObject
    /\ handshakeComplete' = s.handshakeComplete
    /\ hsNeed' = s.hsNeed
    /\ hsHello' = s.hsHello
    /\ buffer' = s.buffer
    /\ currentFrames' = s.currentFrames
    /\ usbRunning' = s.usbRunning
    /\ usbDevice' = s.usbDevice
    /\ aoapFailCount' = s.aoapFailCount
    /\ usbLock' = s.usbLock
    /\ blocked' = s.blocked
    /\ tcpRunning' = s.tcpRunning
    /\ tcpState' = s.tcpState
    /\ tcpAutoReconnect' = s.tcpAutoReconnect
    /\ tcpLoop' = s.tcpLoop
    /\ attempt' = s.attempt
    /\ sentOut' = s.sentOut
    /\ errorsOut' = s.errorsOut
    /\ fed' = s.fed
    /\ routed' = s.routed
    /\ forwarded' = s.forwarded

\* a signal emitted by a transport thread, queued for the main thread; the
\* stateChanged signals whose slot only reports progress (aoap_handshake,
\* aoap_mode, connected) are left out
Ev(src, sig, arg, data) ==
    [ src |-> src, sig |-> sig, arg |-> arg, data |-> data, stale |-> FALSE ]

\* the queued signals, those of a session that stop() has ended marked
Stale(queue) == [ i \in 1..Len(queue) |-> [ queue[i] EXCEPT !.stale = TRUE ] ]

\* the frames the phone may send
VersionResponseFrame ==
    CreateFrameData(Msg(CH_CONTROL, VERSION_RESPONSE, << >>, FALSE), DefaultMaxFrameSize)
SslFrame ==
    CreateFrameData(Msg(CH_CONTROL, SSL_HANDSHAKE, << 7 >>, FALSE), DefaultMaxFrameSize)
DiscoveryResponseFrame ==
    CreateFrameData(Msg(CH_CONTROL, SERVICE_DISCOVERY_RESPONSE, << >>, FALSE),
                    DefaultMaxFrameSize)
PingPayload == << 9 >>
PingFrame ==
    CreateFrameData(Msg(CH_CONTROL, PING_REQUEST, PingPayload, FALSE), DefaultMaxFrameSize)
VideoFrame ==
    CreateFrameData(Msg(CH_VIDEO, 0, << 5 >>, TRUE), DefaultMaxFrameSize)
SensorFrame ==
    CreateFrameData(Msg(CH_SENSOR, 0, << >>, FALSE), DefaultMaxFrameSize)
PhoneFrames ==
    { VersionResponseFrame, SslFrame, DiscoveryResponseFrame, PingFrame, VideoFrame,
      SensorFrame }

\* the state after construction, nothing started, a phone that has sent nothing
Init ==
    /\ MgrInit
    /\ buffer = << >>
    /\ currentFrames = EmptyDict
    /\ CodecIdle
    /\ UnitIdle
    /\ events = << >>
    /\ wire = << >>
    /\ budget = MaxStimuli
    /\ lastOp = "none"
    /\ scripted = OffScript

\* USBTransport.start
UsbStart(s) == IF s.usbRunning THEN s ELSE [ s EXCEPT !.usbRunning = TRUE ]

\* USBTransport.stop, called on the main thread
UsbStop(s) ==
    LET s1 == [ s EXCEPT !.usbRunning = FALSE ]
    IN  IF s1.usbDevice # "none" THEN UsbDisconnectDevice(s1) ELSE s1

\* TCPTransport.start
TcpStart(s) ==
    IF s.tcpRunning THEN s
    ELSE [ s EXCEPT !.tcpRunning = TRUE, !.tcpLoop = TRUE, !.attempt = 0 ]

\* TCPTransport._set_state called on the main thread
TcpSetStateDirect(s, st) ==
    IF s.tcpState = st THEN s
    ELSE OnTcpStateChanged([ s EXCEPT !.tcpState = st ], st)

\* TCPTransport.stop, called on the main thread, once the read thread has
\* ended (its own _disconnect is in the action Stop)
TcpStop(s) ==
    TcpSetStateDirect([ s EXCEPT !.tcpRunning = FALSE, !.tcpAutoReconnect = FALSE,
                                 !.tcpLoop = FALSE ],
                      "disconnected")

\* AndroidAutoManager.stop
ManagerStop(s) ==
    IF ~s.running THEN s
    ELSE LET s1 == [ s EXCEPT !.running = FALSE ]
             s2 == IF s1.transportMode = "usb" THEN UsbStop(s1) ELSE TcpStop(s1)
         IN  IF s2.blocked THEN s2
             ELSE SetState([ s2 EXCEPT !.activeTransport = "none" ], "disconnected")

\* AndroidAutoManager.startUsb
ManagerStartUsb(s) ==
    LET s1 == IF s.running THEN ManagerStop(s) ELSE s
    IN  IF s1.blocked THEN s1
        ELSE UsbStart(SetState([ s1 EXCEPT !.running = TRUE, !.transportMode = "usb",
                                           !.activeTransport = "usb" ],
                               "disconnected"))

\* AndroidAutoManager.startTcp
ManagerStartTcp(s) ==
    LET s1 == IF s.running THEN ManagerStop(s) ELSE s
    IN  IF s1.blocked THEN s1
        ELSE TcpStart(SetState([ s1 EXCEPT !.running = TRUE, !.transportMode = "tcp",
                                           !.activeTransport = "tcp" ],
                               "disconnected"))

\* a transport holds a connection
ConnUp(s) == s.usbDevice = "connected" \/ s.tcpState = "connected"

\* the scripted connection after the main thread ran op (with chunk, for a
\* dataReceived slot) and reached s
ScriptAfter(op, chunk, s) ==
    LET more == [ scripted EXCEPT !.sent = @ \o s.sentOut ]
    IN  CASE op = "connected" ->
               [ stage |-> "connected", flights |-> 0, sent |-> s.sentOut ]
          [] op = "data" /\ scripted.stage = "connected"
                         /\ chunk = VersionResponseFrame ->
               [ more EXCEPT !.stage = "version" ]
          [] op = "data" /\ scripted.stage \in { "version", "tls" }
                         /\ ~sslEstablished /\ chunk = SslFrame ->
               [ more EXCEPT !.stage = "tls", !.flights = @ + 1 ]
          [] op = "data" /\ scripted.stage = "tls"
                         /\ sslEstablished /\ chunk = DiscoveryResponseFrame ->
               [ more EXCEPT !.stage = "done" ]
          [] OTHER -> OffScript

\* a step of the main thread: the slot or call op took the program to s and
\* left queue waiting
MainStep(op, chunk, s, queue) ==
    /\ ~blocked
    /\ Commit(s)
    /\ events' = queue
    /\ wire' = IF ConnUp(s) THEN wire ELSE << >>
    /\ lastOp' = op
    /\ scripted' = ScriptAfter(op, chunk, s)
    /\ UNCHANGED << codecVars, unitVars >>

\* the read thread of a connected TCP transport that is being stopped leaves
\* its loop and runs TCPTransport._disconnect; readerFirst says whether it
\* does so before stop() reaches its own _set_state
ReaderEnds(s, readerFirst) ==
    s.running /\ s.transportMode = "tcp" /\ s.tcpState = "connected" /\ readerFirst

\* room for n more queued signals
Room(n) == Len(events) + n <= MaxQueue

\* the public method of the manager called name
Called(name, s) ==
    CASE name = "stop" -> ManagerStop(s)
      [] name = "startUsb" -> ManagerStartUsb(s)
      [] name = "startTcp" -> ManagerStartTcp(s)

\* a call of stop(), startUsb() or startTcp() by the application
Call(name, readerFirst) ==
    LET ends == ReaderEnds(Cur, readerFirst)
        s0 == IF ends THEN [ Cur EXCEPT !.tcpState = "disconnected" ] ELSE Cur
        queue == IF ends
                 THEN events \o << Ev("tcp", "state", "disconnected", << >>),
                                   Ev("tcp", "disconnected", "", << >>) >>
                 ELSE events
    IN  /\ budget' = budget - 1
        /\ ends => Room(2)
        /\ MainStep(name, << >>, Called(name, s0),
                    IF running THEN Stale(queue) ELSE queue)

Stop ==
    /\ budget > 0
    /\ \E readerFirst \in BOOLEAN : Call("stop", readerFirst)

StartUsb ==
    /\ budget > 0
    /\ \E readerFirst \in BOOLEAN : Call("startUsb", readerFirst)

StartTcp ==
    /\ budget > 0
    /\ \E readerFirst \in BOOLEAN : Call("startTcp", readerFirst)

\* the main thread runs the slot of the signal at the head of its queue
Delivering(sig) == events # << >> /\ Head(events).sig = sig

DeliverStateChanged ==
    /\ Delivering("state")
    /\ LET e == Head(events)
           s == IF e.src = "usb" THEN OnUsbStateChanged(Cur, e.arg)
                ELSE OnTcpStateChanged(Cur, e.arg)
       IN  MainStep("state", << >>, s, Tail(events))
    /\ UNCHANGED budget

\* the outcomes of the writes of the active transport: USBTransport.write
\* catches only USBError, TCPTransport.write catches every exception
WriteOutcomes == IF activeTransport = "usb" THEN BOOLEAN ELSE { FALSE }

DeliverConnected ==
    /\ Delivering("connected")
    /\ \E raises \in WriteOutcomes :
         MainStep("connected", << >>,
                  OnDeviceConnected([ Cur EXCEPT !.writeRaises = raises ]), Tail(events))
    /\ UNCHANGED budget

DeliverDisconnected ==
    /\ Delivering("disconnected")
    /\ MainStep("disconnected", << >>, OnDeviceDisconnected(Cur), Tail(events))
    /\ UNCHANGED budget

\* the outcomes of SSLHandler.initialize that matter to the slot run on chunk
InitOutcomes(chunk) ==
    IF IsRawVersionResponse(chunk) THEN BOOLEAN \X (1..MaxExchanges)
    ELSE { << TRUE, 1 >> }

\* the outcomes of the protobuf imports that matter to the slot run on chunk
ImportOutcomes(chunk) ==
    IF IsRawVersionResponse(chunk) THEN { TRUE } ELSE BOOLEAN

DeliverData ==
    /\ Delivering("data")
    /\ LET chunk == Head(events).data
       IN  \E init \in InitOutcomes(chunk), proto \in ImportOutcomes(chunk),
              raises \in WriteOutcomes :
             MainStep("data", chunk,
                      OnDataReceived([ Cur EXCEPT !.protoAvailable = proto,
                                                  !.writeRaises = raises ],
                                     chunk, init[1], init[2]),
                      Tail(events))
    /\ UNCHANGED budget

DeliverError ==
    /\ Delivering("error")
    /\ MainStep("error", << >>, OnTransportError(Cur, Head(events).arg), Tail(events))
    /\ UNCHANGED budget

\* the single-shot QTimer armed by _initiate_ssl_handshake expires
VersionTimeout ==
    /\ versionTimer = "active"
    /\ MainStep("timeout", << >>,
                OnVersionTimeout([ Cur EXCEPT !.versionTimer = "fired" ]), events)
    /\ UNCHANGED budget

\* the slot of a signal run by the thread that emits it
SlotDirect(s, e) ==
    CASE e.sig = "connected" -> OnDeviceConnected(s)
      [] e.sig = "disconnected" -> OnDeviceDisconnected(s)
      [] e.sig = "error" -> OnTransportError(s, e.arg)
      [] OTHER -> s

\* a step of a transport thread whose signals are connected directly
BackgroundDirect(s, emitted, newWire, cost) ==
    /\ budget >= cost
    /\ Commit(IF emitted = << >> THEN s ELSE SlotDirect(s, emitted[Len(emitted)]))
    /\ events' = events
    /\ wire' = newWire
    /\ budget' = budget - cost
    /\ lastOp' = "none"
    /\ UNCHANGED << scripted, codecVars, unitVars >>

\* a step of a transport thread: it changes the transport's own fields, queues
\* the signals it emits and uses up cost of the stimuli left
Background(s, emitted, newWire, cost) ==
    /\ Room(Len(emitted))
    /\ budget >= cost
    /\ Commit(s)
    /\ events' = events \o emitted
    /\ wire' = newWire
    /\ budget' = budget - cost
    /\ lastOp' = "none"
    /\ UNCHANGED << scripted, codecVars, unitVars >>

\* the sizes a read of the transport may return
ReadSizes == { k \in 1..Len(wire) : Len(wire) - k <= MaxShort }

\* the monitor thread is about to scan with no device held
UsbIdle == usbRunning /\ usbDevice = "none" /\ usbLock = "free"

\* USBTransport._scan_for_devices finds that the device it holds no longer
\* answers and calls _disconnect_device, which waits for the _lock that
\* _scan_for_devices itself holds
UsbScanLost ==
    /\ usbRunning /\ usbDevice # "none" /\ usbLock = "free"
    /\ Background([ Cur EXCEPT !.usbLock = "stuck" ], << >>, wire, 0)

\* USBTransport._scan_for_devices finds a fresh Android device and runs
\* _initiate_aoap_handshake
UsbScanFresh ==
    /\ UsbIdle
    /\ aoapFailCount < MaxAoapFails
    /\ \E ok \in BOOLEAN :
         LET s == [ Cur EXCEPT !.aoapFailCount = 0,
                               !.usbDevice = IF ok THEN "none" ELSE "error" ]
             last == IF ok THEN Ev("usb", "state", "disconnected", << >>)
                     ELSE Ev("usb", "error", "aoap handshake failed", << >>)
         IN  Background(s, << last >>, wire, 0)

\* USBTransport._scan_for_devices finds a device in accessory mode and runs
\* _connect_aoap_device
UsbScanAoap ==
    /\ UsbIdle
    /\ aoapFailCount < MaxAoapFails
    /\ \E ok \in BOOLEAN :
         LET s == [ Cur EXCEPT !.usbDevice = IF ok THEN "connected" ELSE "error" ]
             last == IF ok THEN Ev("usb", "connected", "", << >>)
                     ELSE Ev("usb", "error", "failed to connect", << >>)
         IN  Background(s, << last >>, << >>, 1)

\* USBTransport._scan_for_devices with the failure count at its maximum
UsbBackoff ==
    /\ UsbIdle
    /\ aoapFailCount >= MaxAoapFails
    /\ Background(Cur, << Ev("usb", "error", "phone stuck in aoap mode", << >>) >>,
                  wire, 0)

\* USBTransport._read_loop reads a chunk
UsbRead ==
    /\ usbRunning /\ usbDevice = "connected"
    /\ \E k \in ReadSizes :
         Background(Cur, << Ev("usb", "data", "", Slice(wire, 0, k)) >>, From(wire, k), 0)

\* USBTransport._read_loop gives up after repeated errors and disconnects
UsbLost ==
    /\ usbRunning /\ usbDevice = "connected" /\ usbLock = "free"
    /\ Background([ Cur EXCEPT !.usbDevice = "none" ],
                  << Ev("usb", "state", "disconnected", << >>),
                     Ev("usb", "disconnected", "", << >>) >>,
                  << >>, 0)

\* TCPTransport._connection_loop goes round once while not connected: it
\* gives up after max_reconnect_attempts failures in a row, and otherwise
\* makes an attempt with _connect; a failed attempt is retried later, or ends
\* the loop with an error when _auto_reconnect is off
TcpConnect ==
    /\ tcpRunning /\ tcpLoop /\ tcpState # "connected"
    /\ IF attempt + 1 > MaxReconnectAttempts
       THEN Background([ Cur EXCEPT !.tcpLoop = FALSE, !.attempt = attempt + 1 ],
                       << Ev("tcp", "error", "failed to connect", << >>) >>,
                       << >>, 0)
       ELSE \E ok \in BOOLEAN :
              LET head == IF tcpState = "connecting" THEN << >>
                          ELSE << Ev("tcp", "state", "connecting", << >>) >>
                  tail == IF ok THEN << Ev("tcp", "connected", "", << >>) >>
                          ELSE IF tcpAutoReconnect THEN << >>
                          ELSE << Ev("tcp", "error", "connection failed", << >>) >>
                  s == [ Cur EXCEPT !.tcpState = IF ok THEN "connected" ELSE "connecting",
                                    !.tcpLoop = ok \/ tcpAutoReconnect,
                                    !.attempt = IF ok THEN 0 ELSE attempt + 1 ]
              IN  Background(s, head \o tail, << >>, IF ok THEN 1 ELSE 0)

\* TCPTransport._read_loop receives a chunk
TcpRead ==
    /\ tcpRunning /\ tcpState = "connected"
    /\ \E k \in ReadSizes :
         Background(Cur, << Ev("tcp", "data", "", Slice(wire, 0, k)) >>, From(wire, k), 0)

\* TCPTransport._read_loop ends on a closed or reset connection and runs
\* _disconnect
TcpClosed ==
    /\ tcpRunning /\ tcpState = "connected"
    /\ Background([ Cur EXCEPT !.tcpState = "disconnected" ],
                  << Ev("tcp", "state", "disconnected", << >>),
                     Ev("tcp", "disconnected", "", << >>) >>,
                  << >>, 0)

\* the phone sends a frame over the connection
PhoneSend ==
    /\ ConnUp(Cur)
    /\ \E f \in PhoneFrames :
         /\ Len(wire) + Len(f) <= MaxWire
         /\ Background(Cur, << >>, wire \o f, 1)

Next ==
    \/ StartUsb
    \/ StartTcp
    \/ Stop
    \/ DeliverStateChanged
    \/ DeliverConnected
    \/ DeliverDisconnected
    \/ DeliverData
    \/ DeliverError
    \/ VersionTimeout
    \/ UsbScanFresh
    \/ UsbScanAoap
    \/ UsbBackoff
    \/ UsbScanLost
    \/ UsbRead
    \/ UsbLost
    \/ TcpConnect
    \/ TcpRead
    \/ TcpClosed
    \/ PhoneSend

Spec == Init /\ [][Next]_vars

(***************************************************************************)
(* The scripted connection: one start, one connection, and a phone that    *)
(* answers with a version response, then TLS flights until the handshake   *)
(* has completed, then a service-discovery response                        *)
(***************************************************************************)

ScriptInit ==
    /\ MgrInit
    /\ buffer = << >>
    /\ currentFrames = EmptyDict
    /\ CodecIdle
    /\ UnitIdle
    /\ events = << >>
    /\ wire = << >>
    /\ budget = MaxExchanges + 4
    /\ lastOp = "none"
    /\ scripted = OffScript

ScriptStartUsb == ~running /\ StartUsb

ScriptStartTcp == ~running /\ StartTcp

ScriptUsbConnect == UsbScanAoap /\ usbDevice' = "connected" /\ scripted.stage = "off"

ScriptTcpConnect == TcpConnect /\ scripted.stage = "off"

\* the frame the phone sends next
ScriptFrame ==
    CASE scripted.stage = "connected" -> VersionResponseFrame
      [] scripted.stage \in { "version", "tls" } /\ ~sslEstablished -> SslFrame
      [] OTHER -> DiscoveryResponseFrame

\* the phone has seen the answer to what it sent and sends its next frame
ScriptPhone ==
    /\ scripted.stage \notin { "off", "done" }
    /\ state # "error"
    /\ events = << >> /\ wire = << >>
    /\ PhoneSend
    /\ wire' = ScriptFrame

ScriptRead == UsbRead \/ TcpRead

ScriptDeliver == DeliverStateChanged \/ DeliverConnected \/ DeliverData

ScriptNext ==
    \/ ScriptStartUsb
    \/ ScriptStartTcp
    \/ ScriptUsbConnect
    \/ ScriptTcpConnect
    \/ ScriptPhone
    \/ ScriptRead
    \/ ScriptDeliver

SpecScript == ScriptInit /\ [][ScriptNext]_vars

\* the message id of a frame with a short header
MsgIdOf(data) == UnpackH(Slice(data, 4, 6))

\* the payload of a frame with a short header
PayloadOfFrame(data) == From(data, 6)

(***************************************************************************)
(* C4  Orchestrator sequencing: once the transport has reported connected  *)
(* and delivered a version response, the TLS flights of a handshake that   *)
(* completes after N of them and a service-discovery response, the manager *)
(* is in state CONNECTED and has handed to the transport, in this order,   *)
(* one VERSION_REQUEST, the N + 1 TLS handshake messages, one              *)
(* AUTH_COMPLETE, one SERVICE_DISCOVERY_REQUEST and one                    *)
(* CHANNEL_OPEN_REQUEST whose payload names the VIDEO channel.             *)
(***************************************************************************)
ScriptedIds == [ i \in 1..Len(scripted.sent) |-> MsgIdOf(scripted.sent[i].data) ]

ExpectedIds ==
    << VERSION_REQUEST >>
    \o [ i \in 1..(scripted.flights + 1) |-> SSL_HANDSHAKE ]
    \o << AUTH_COMPLETE, SERVICE_DISCOVERY_REQUEST, CHANNEL_OPEN_REQUEST >>

NamesChannel(payload, ch) == \E i \in 1..Len(payload) : payload[i] = ch

C4_ScriptedSequence ==
    scripted.stage = "done"
    => /\ state = "connected"
       /\ ScriptedIds = ExpectedIds
       /\ NamesChannel(PayloadOfFrame(scripted.sent[Len(scripted.sent)].data), CH_VIDEO)

\* the scripted connection has run to its end
C4_ScriptDone == scripted.stage = "done" /\ scripted.flights >= 1

(***************************************************************************)
(* C5  Ping keepalive: in every orchestrator state, the slot that receives *)
(* a chunk holding exactly one PING_REQUEST frame, with nothing pending in *)
(* the assembler, hands exactly one PING_RESPONSE with the same payload to *)
(* the transport and leaves the orchestrator state as it was.              *)
(***************************************************************************)
\* this step is the dataReceived slot run on the chunk at the head of the queue
DataStep == Delivering("data") /\ events' = Tail(events)

PingResponseFrame ==
    CreateFrameData(Msg(CH_CONTROL, PING_RESPONSE, PingPayload, FALSE), DefaultMaxFrameSize)

PingStep ==
    /\ DataStep
    /\ Head(events).data = PingFrame
    /\ buffer = << >>
    /\ currentFrames = EmptyDict

C5_PingAnswered ==
    [][ PingStep => /\ Len(sentOut') = 1
                    /\ sentOut'[1].data = PingResponseFrame
                    /\ state' = state ]_vars

(***************************************************************************)
(* C6  Version timeout: when the 5 s timer expires with no version         *)
(* response received (state SSL_HANDSHAKE, TLS not established), exactly   *)
(* one error notification is emitted and nothing is sent.                  *)
(***************************************************************************)
TimeoutStep ==
    /\ versionTimer = "active"
    /\ lastOp' = "timeout"
    /\ state = "ssl_handshake"
    /\ ~sslEstablished

C6_OneErrorPerTimeout ==
    [][ TimeoutStep => (Len(errorsOut') = 1 /\ sentOut' = << >>) ]_vars

(***************************************************************************)
(* C7  Forward only: while the connection is alive, an inbound chunk of    *)
(* the active transport that changes the orchestrator state to a state     *)
(* other than DISCONNECTED or ERROR moves it to a later state of the       *)
(* sequence Disconnected, Connecting, SSLHandshake, ServiceDiscovery,      *)
(* Connected, Streaming, and enters Streaming only from Connected.         *)
(***************************************************************************)
\* this step is the dataReceived slot run on a chunk of the active transport
\* while that transport holds its connection
LiveDataStep ==
    /\ DataStep
    /\ running
    /\ Head(events).src = activeTransport
    /\ \/ activeTransport = "usb" /\ usbDevice = "connected"
       \/ activeTransport = "tcp" /\ tcpState = "connected"

Rank(st) ==
    CASE st = "disconnected" -> 0
      [] st = "connecting" -> 1
      [] st = "ssl_handshake" -> 2
      [] st = "service_discovery" -> 3
      [] st = "connected" -> 4
      [] st = "streaming" -> 5
      [] OTHER -> -1

C7_ForwardOnly ==
    [][ (LiveDataStep /\ state' # state /\ state' \notin { "disconnected", "error" })
        => /\ Rank(state') > Rank(state)
           /\ state' = "streaming" => state = "connected" ]_vars

(***************************************************************************)
(* C8  Disconnection: whenever the deviceDisconnected signal of a          *)
(* transport has been handled, in whatever state it found the              *)
(* orchestrator, the TLS-established flag, the services-discovered flag    *)
(* and the channel bookkeeping are cleared and the state is DISCONNECTED.  *)
(***************************************************************************)
C8_DisconnectResets ==
    lastOp = "disconnected"
    => /\ ~sslEstablished
       /\ ~servicesDiscovered
       /\ ~videoChannelOpen
       /\ audioChannelsOpen = {}
       /\ state = "disconnected"

\* a disconnection handled on a connection whose TLS handshake had completed
C8_DisconnectedAfterTls == lastOp = "disconnected" /\ handshakeComplete

(***************************************************************************)
(* C9  Version response: whenever a chunk completes a VERSION_RESPONSE     *)
(* frame at a frame boundary (the frame alone in the chunk, its last bytes *)
(* after an earlier read held its first bytes, or the frame after another  *)
(* frame of the same chunk) while a transport is active, the version       *)
(* timeout is no longer pending after the slot and either the initial TLS  *)
(* handshake output has been handed to the transport as an unencrypted     *)
(* SSL_HANDSHAKE message or the TLS initialisation failed (state ERROR).   *)
(***************************************************************************)
CompletesVersionResponse ==
    /\ currentFrames = EmptyDict
    /\ \/ buffer \o Head(events).data = VersionResponseFrame
       \/ /\ buffer = << >>
          /\ \E f \in PhoneFrames : Head(events).data = f \o VersionResponseFrame

ClientHelloFrame ==
    CreateFrameData(Msg(CH_CONTROL, SSL_HANDSHAKE, << 1 >>, FALSE), DefaultMaxFrameSize)

C9_VersionResponseHandled ==
    [][ (DataStep /\ activeTransport # "none" /\ CompletesVersionResponse)
        => /\ versionTimer' # "active"
           /\ \/ state' = "error"
              \/ \E i \in 1..Len(sentOut') : sentOut'[i].data = ClientHelloFrame ]_vars

(***************************************************************************)
(* C10  Every chunk goes through the assembler: the slot that receives a   *)
(* chunk hands exactly that chunk to MessageAssembler.feed.                *)
(***************************************************************************)
C10_EveryChunkFed ==
    [][ DataStep => fed' = << Head(events).data >> ]_vars

(***************************************************************************)
(* C11  Stop joins its threads: no deviceConnected, deviceDisconnected,    *)
(* dataReceived or error signal that a transport thread emitted before     *)
(* stop() returned is delivered to the manager after stop() has returned.  *)
(***************************************************************************)
Callbacks == { "connected", "disconnected", "data", "error" }

C11_NoStaleCallback ==
    [][ \A sig \in Callbacks :
          (Delivering(sig) /\ events' = Tail(events)) => ~Head(events).stale ]_vars

\* this step is the slot of a connected, disconnected, data or error signal
\* that did not come from the active transport of the current session
ForeignStep ==
    /\ events # << >>
    /\ Head(events).sig \in Callbacks
    /\ events' = Tail(events)
    /\ Head(events).stale \/ Head(events).src # activeTransport

(***************************************************************************)
(* C37  Only the active transport of the current session drives the        *)
(* orchestrator: the slot of a connected, disconnected, data or error      *)
(* signal that comes from the transport that is not active, or from a      *)
(* session that was stopped since, leaves the orchestrator state and its   *)
(* TLS and channel flags as they were and sends nothing.                   *)
(***************************************************************************)
C37_ActiveTransportOnly ==
    [][ ForeignStep
        => /\ UNCHANGED << state, sslEstablished, servicesDiscovered,
                           videoChannelOpen, audioChannelsOpen >>
           /\ sentOut' = << >> ]_vars

(***************************************************************************)
(* C12  Stop terminates: whenever stop() has been called, in whatever      *)
(* state of the manager and its transports, it has returned (the main      *)
(* thread is not left waiting for a lock that is never released) and the   *)
(* orchestrator is in DISCONNECTED.                                        *)
(***************************************************************************)
C12_StopReturns == lastOp = "stop" => (~blocked /\ state = "disconnected")

(***************************************************************************)
(* C13  Fresh reassembly state: after stop() has returned, after a         *)
(* disconnection has been handled and after startUsb() or startTcp() has   *)
(* returned, the assembler's byte buffer and its per-channel pending-frame *)
(* lists are empty.                                                        *)
(***************************************************************************)
C13_FreshAssembler ==
    (lastOp \in { "stop", "disconnected", "startUsb", "startTcp" } /\ ~blocked)
    => (buffer = << >> /\ currentFrames = EmptyDict)

(***************************************************************************)
(* C17  Unexpected messages are ignored: the slot that receives, with      *)
(* nothing pending in the assembler, a SERVICE_DISCOVERY_RESPONSE before   *)
(* the TLS handshake has completed, an SSL_HANDSHAKE message after it has  *)
(* completed, or a VERSION_RESPONSE while Connected or Streaming, leaves   *)
(* the orchestrator state as it was and hands nothing to the transport.    *)
(***************************************************************************)
Unexpected(chunk) ==
    \/ chunk = DiscoveryResponseFrame /\ ~sslEstablished
    \/ chunk = SslFrame /\ sslEstablished
    \/ chunk = VersionResponseFrame /\ state \in { "connected", "streaming" }

C17_UnexpectedIgnored ==
    [][ ( /\ DataStep
          /\ buffer = << >>
          /\ currentFrames = EmptyDict
          /\ Unexpected(Head(events).data) )
        => (state' = state /\ sentOut' = << >>) ]_vars

(***************************************************************************)
(* C18  Route contains handler failures: in the slot that receives a chunk *)
(* and feeds it to the assembler, every Message the assembler returns is   *)
(* handed to route in order, whether or not the handler of an earlier one  *)
(* raised, and a message is dropped without a handler being invoked        *)
(* exactly when no handler is registered for its channel.                  *)
(***************************************************************************)
C18_RouteContainsFailures ==
    [][ (DataStep /\ ~IsRawVersionResponse(Head(events).data))
        => LET messages == Feed(buffer, currentFrames, Head(events).data).messages
           IN  /\ Len(routed') = Len(messages)
               /\ \A i \in 1..Len(messages) :
                     /\ routed'[i].ch = messages[i].channel_id
                     /\ routed'[i].outcome = "dropped"
                          <=> messages[i].channel_id \notin RegisteredChannels ]_vars

\* a handler raised and the message after it was handled all the same
C18_RaisedThenHandled ==
    /\ lastOp = "data"
    /\ Len(routed) = 2
    /\ routed[1].outcome = "raised"
    /\ routed[2].outcome = "handled"

(***************************************************************************)
(* C19  Handshake stall is surfaced: when the slot that handles a version  *)
(* response leaves the orchestrator in SSLHandshake with the TLS handshake *)
(* incomplete, a timeout is pending whose expiry emits the error and       *)
(* triggers the recovery; without one a peer that sends nothing more       *)
(* leaves the orchestrator in SSLHandshake for ever.                       *)
(***************************************************************************)
C19_StallSurfaced ==
    [][ ( /\ DataStep
          /\ IsRawVersionResponse(Head(events).data)
          /\ state' = "ssl_handshake"
          /\ ~sslEstablished' )
        => versionTimer' = "active" ]_vars

(***************************************************************************)
(* C20  TCP connect retry: a round of the connection loop that fails to    *)
(* connect leaves the loop running and reports nothing as long as at most  *)
(* 10 rounds in a row have failed; the round after the 10th failure        *)
(* reports exactly one error and ends the loop; a successful connect       *)
(* resets the attempt counter to zero.                                     *)
(***************************************************************************)
\* the error signals this step queued
QueuedErrors ==
    Cardinality({ i \in (Len(events) + 1)..Len(events') : events'[i].sig = "error" })

C20_ConnectRetry ==
    [][ /\ (attempt' = attempt + 1 /\ attempt' <= MaxReconnectAttempts)
            => (tcpLoop' /\ QueuedErrors = 0)
        /\ (attempt' = attempt + 1 /\ attempt' > MaxReconnectAttempts)
            => (~tcpLoop' /\ QueuedErrors = 1)
        /\ (tcpState # "connected" /\ tcpState' = "connected") => attempt' = 0 ]_vars

(***************************************************************************)
(* TCPTransport on its own: start, the connection thread, the read thread  *)
(* and stop.  stop joins both threads; each leaves its loop within the     *)
(* join (the reads time out after 1 s), so stop ends after they have.      *)
(***************************************************************************)
\* what self._socket.recv(16384) does: bytes, b'', socket.timeout,
\* ConnectionResetError, another OSError
RecvOutcomes == { "data", "closed", "timeout", "reset", "oserror" }

\* TCPTransport._set_state
TcpSetState(t, st) == [ t EXCEPT !.state = st ]

\* TCPTransport._disconnect: the socket closed and forgotten, and unless the
\* state is DISCONNECTED already, DISCONNECTED and one deviceDisconnected
TcpDisconnectKeepsSocket(t) ==
    IF t.state # "disconnected"
    THEN [ TcpSetState(t, "disconnected") EXCEPT !.disconnects = @ + 1 ]
    ELSE t

TcpDisconnect(t) ==
    LET t1 == [ t EXCEPT !.socket = "none" ]
    IN  IF t1.state # "disconnected"
        THEN [ TcpSetState(t1, "disconnected") EXCEPT !.disconnects = @ + 1 ]
        ELSE t1

\* one pass of the while loop of TCPTransport._read_loop with the outcome o
\* of recv
TcpReadPass(t, o) ==
    LET t1 == [ t EXCEPT !.lastRecv = o ]
    IN  CASE o = "data" -> [ t1 EXCEPT !.errorCount = 0,
                                       !.received = IF @ < MaxReceived THEN @ + 1 ELSE @ ]
          [] o = "timeout" -> t1
          [] o = "oserror" ->
                IF t1.errorCount + 1 >= MaxReadErrors
                THEN [ t1 EXCEPT !.errorCount = @ + 1, !.readLoop = "ended" ]
                ELSE [ t1 EXCEPT !.errorCount = @ + 1 ]
          [] OTHER -> [ t1 EXCEPT !.readLoop = "ended" ]

\* TCPTransport._connect that succeeds: CONNECTING, CONNECTED, deviceConnected
\* and a new read thread
TcpConnectOk(t) ==
    [ TcpSetState(t, "connected") EXCEPT
        !.socket = "open", !.readLoop = "loop", !.errorCount = 0,
        !.conns = @ + 1, !.lastRecv = "none", !.disconnects = 0, !.received = 0 ]

\* TCPTransport._connect that raises: CONNECTING stays, the socket is dropped
TcpConnectFails(t) == [ TcpSetState(t, "connecting") EXCEPT !.socket = "none" ]

\* TCPTransport.start
TcpTransportStart ==
    /\ ~tcpTransport.running
    /\ ~tcpTransport.stopping
    /\ tcpTransport.connLoop = "none"
    /\ tcpTransport' = [ tcpTransport EXCEPT !.running = TRUE, !.connLoop = "loop",
                                             !.attempt = 0 ]

\* one round of TCPTransport._connection_loop while not connected
TcpConnectRound(ok) ==
    /\ tcpTransport.connLoop = "loop"
    /\ tcpTransport.running
    /\ tcpTransport.state # "connected"
    /\ LET t == [ tcpTransport EXCEPT !.attempt = @ + 1 ]
       IN  tcpTransport' =
             IF t.attempt > MaxReconnectAttempts
             THEN [ t EXCEPT !.connLoop = "none" ]
             ELSE IF ok /\ t.conns < MaxConns
             THEN [ TcpConnectOk(t) EXCEPT !.attempt = 0 ]
             ELSE IF ~t.autoReconnect
             THEN [ TcpConnectFails(t) EXCEPT !.connLoop = "none" ]
             ELSE TcpConnectFails(t)

\* the connection thread finds _running false
TcpConnectLoopExit ==
    /\ tcpTransport.connLoop = "loop"
    /\ ~tcpTransport.running
    /\ tcpTransport' = [ tcpTransport EXCEPT !.connLoop = "none" ]

\* the read thread: the loop condition holds and recv returns or raises
TcpRecv(o) ==
    /\ tcpTransport.readLoop = "loop"
    /\ tcpTransport.running
    /\ tcpTransport.state = "connected"
    /\ tcpTransport.socket # "none"
    /\ tcpTransport' = TcpReadPass(tcpTransport, o)

\* the read thread: the loop condition fails, or the socket is gone
TcpReadLoopExit ==
    /\ tcpTransport.readLoop = "loop"
    /\ ~ ( /\ tcpTransport.running
           /\ tcpTransport.state = "connected"
           /\ tcpTransport.socket # "none" )
    /\ tcpTransport' = [ tcpTransport EXCEPT !.readLoop = "ended" ]

\* the read thread after its loop: _disconnect()
TcpReadLoopEnd ==
    /\ tcpTransport.readLoop = "ended"
    /\ tcpTransport' = [ TcpDisconnect(tcpTransport) EXCEPT !.readLoop = "none" ]

\* TCPTransport.stop up to its joins
TcpTransportStop ==
    /\ tcpTransport.running
    /\ tcpTransport' = [ tcpTransport EXCEPT !.running = FALSE, !.autoReconnect = FALSE,
                                             !.socket = "none", !.stopping = TRUE ]

\* TCPTransport.stop after its joins
TcpTransportStopJoined ==
    /\ tcpTransport.stopping
    /\ tcpTransport.connLoop = "none"
    /\ tcpTransport.readLoop = "none"
    /\ tcpTransport' = [ TcpSetState(tcpTransport, "disconnected") EXCEPT
                           !.stopping = FALSE ]

TcpInit ==
    /\ MgrInit
    /\ EnvIdle
    /\ CodecIdle
    /\ buffer = << >>
    /\ currentFrames = EmptyDict
    /\ UnitIdle

TcpNext ==
    /\ \/ TcpTransportStart
       \/ \E ok \in BOOLEAN : TcpConnectRound(ok)
       \/ TcpConnectLoopExit
       \/ \E o \in RecvOutcomes : TcpRecv(o)
       \/ TcpReadLoopExit
       \/ TcpReadLoopEnd
       \/ TcpTransportStop
       \/ TcpTransportStopJoined
    /\ UNCHANGED << asmVars, codecVars, mgrVars, envVars, usbTransport, sslCall, feedCall,
                    timerOwner, writeCall >>

SpecTcp == TcpInit /\ [][TcpNext]_vars

FailedConnectStep ==
    /\ tcpTransport.connLoop = "loop"
    /\ tcpTransport'.attempt = tcpTransport.attempt + 1
    /\ tcpTransport'.attempt <= MaxReconnectAttempts

(***************************************************************************)
(* C36  Restarting the TCP transport restores its retry behaviour: after   *)
(* stop() followed by start(), as after the first start(), a failed        *)
(* connect leaves the connection loop running, to try again until the      *)
(* bounded attempt count is used up.                                       *)
(***************************************************************************)
C36_RestartRetries ==
    [][ FailedConnectStep => tcpTransport'.connLoop = "loop" ]_vars

(***************************************************************************)
(* USBTransport on its own: the monitor thread (one pass of                *)
(* _scan_for_devices is one step: it runs under _lock), the read thread,   *)
(* and the main thread calling write (one transfer per step) and stop.     *)
(* A thread that waits for _lock while the monitor thread is stuck holding *)
(* it waits for ever.                                                      *)
(***************************************************************************)
\* what is attached instead of a phone in accessory mode: nothing, an
\* Android phone of a listed vendor that answers GET_PROTOCOL with a
\* version >= 1, or a device of a listed vendor that does not
FreshKinds == { "none", "android", "mute" }

Buses == [ fresh : FreshKinds, aoap : BOOLEAN ]

\* what out_endpoint.write does: all bytes written, fewer bytes written,
\* USBTimeoutError, another USBError
TransferOutcomes == { "full", "short", "timeout", "usberror" }

\* what in_endpoint.read does: data, USBTimeoutError, another USBError
ReadOutcomes == { "data", "timeout", "usberror" }

\* a step of the transport begins: nothing emitted yet
UsbStep(t, name) == [ t EXCEPT !.lastStep = name, !.emitted = << >> ]

UsbEmit(t, sigs) == [ t EXCEPT !.emitted = @ \o sigs ]

\* USBTransport.is_connected
IsConnected(t) == t.device.obj # 0 /\ t.device.state = "connected"

\* USBTransport._disconnect_device once it has _lock
DisconnectDevice(t) ==
    IF t.device.obj # 0
    THEN UsbEmit([ t EXCEPT !.device = NoDevice ],
                 << "state:disconnected", "deviceDisconnected" >>)
    ELSE t

\* USBTransport._check_aoap_support for the device attached
CheckAoapSupport(bus) == bus.fresh = "android"

\* USBTransport._find_android_device finds a device
FindAndroidDevice(bus) == bus.fresh # "none" /\ CheckAoapSupport(bus)

\* USBTransport._find_aoap_device finds a device
FindAoapDevice(bus) == bus.aoap

\* USBDevice(device)
NewDevice(t, aoap) ==
    [ t EXCEPT !.objects = @ + 1,
               !.device = [ obj |-> t.objects + 1, aoap |-> aoap, state |-> "detected" ] ]

\* USBTransport._initiate_aoap_handshake; ok: no control transfer raised.
\* After START the phone leaves the bus and comes back in accessory mode
InitiateAoapHandshakeKeepsDevice(t, ok) ==
    LET t1 == UsbEmit([ t EXCEPT !.device.state = "aoap_handshake" ],
                      << "state:aoap_handshake" >>)
    IN  IF ok
        THEN UsbEmit([ t1 EXCEPT !.started = @ \cup { t.device.obj },
                                 !.bus = [ fresh |-> "none", aoap |-> TRUE ] ],
                     << "state:disconnected" >>)
        ELSE UsbEmit([ t1 EXCEPT !.device.state = "error" ], << "error" >>)

InitiateAoapHandshake(t, ok) ==
    LET t1 == UsbEmit([ t EXCEPT !.device.state = "aoap_handshake" ],
                      << "state:aoap_handshake" >>)
    IN  IF ok
        THEN UsbEmit([ t1 EXCEPT !.device = NoDevice,
                                 !.started = @ \cup { t.device.obj },
                                 !.bus = [ fresh |-> "none", aoap |-> TRUE ] ],
                     << "state:disconnected" >>)
        ELSE UsbEmit([ t1 EXCEPT !.device.state = "error" ], << "error" >>)

\* USBTransport._connect_aoap_device; ok: both endpoints found and the probe
\* read did not fail
ConnectAoapDevice(t, ok) ==
    IF t.device.obj = 0 \/ ~t.device.aoap THEN t
    ELSE LET t1 == UsbEmit([ t EXCEPT !.device.state = "aoap_mode" ],
                           << "state:aoap_mode" >>)
         IN  IF ok
             THEN UsbEmit([ t1 EXCEPT !.device.state = "connected",
                                      !.readLoop = "loop", !.errorCount = 0 ],
                          << "state:connected", "deviceConnected" >>)
             ELSE UsbEmit([ t1 EXCEPT !.device.state = "error" ], << "error" >>)

\* one pass of USBTransport._scan_for_devices; raises: reading the descriptor
\* of the device held raises USBError, and _disconnect_device then waits for
\* the lock this pass holds
ScanForDevices(t, raises, ok) ==
    IF t.device.obj # 0
    THEN IF raises THEN [ t EXCEPT !.lock = "stuck" ] ELSE t
    ELSE IF t.failCount >= MaxAoapFails
    THEN UsbEmit([ t EXCEPT !.waited = TRUE ], << "error" >>)
    ELSE IF FindAndroidDevice(t.bus)
    THEN InitiateAoapHandshake([ NewDevice(t, FALSE) EXCEPT !.failCount = 0,
                                                            !.waited = FALSE ], ok)
    ELSE IF FindAoapDevice(t.bus)
    THEN ConnectAoapDevice(NewDevice(t, TRUE), ok)
    ELSE t

\* USBTransport._handle_stale_device on the main thread
StaleDevice(t) ==
    LET t1 == [ t EXCEPT !.failCount = @ + 1, !.write.recoveries = @ + 1 ]
        t2 == IF t1.failCount >= MaxAoapFails THEN UsbEmit(t1, << "error" >>) ELSE t1
        t3 == IF t2.device.obj # 0 THEN [ t2 EXCEPT !.write.resets = @ + 1 ] ELSE t2
    IN  IF t3.lock = "stuck"
        THEN [ t3 EXCEPT !.mainBlocked = TRUE ]
        ELSE DisconnectDevice(t3)

\* one pass of the for loop of USBTransport.write with the outcome o of
\* out_endpoint.write; without a device the attribute access raises
WriteAttempt(t, o) ==
    IF t.device.obj = 0 THEN [ t EXCEPT !.write.ret = "raised", !.write.attempt = 0 ]
    ELSE LET t1 == [ t EXCEPT !.write.transfers = @ + 1, !.write.outcome = o ]
         IN  CASE o = "full" -> [ t1 EXCEPT !.write.ret = "true", !.write.attempt = 0 ]
               [] o = "timeout" /\ t.write.attempt < WriteRetries ->
                     [ t1 EXCEPT !.write.halts = @ + 1, !.write.attempt = @ + 1 ]
               [] o = "timeout" ->
                     LET t2 == StaleDevice(t1)
                     IN  IF t2.mainBlocked THEN t2
                         ELSE [ t2 EXCEPT !.write.ret = "false", !.write.attempt = 0 ]
               [] OTHER -> [ t1 EXCEPT !.write.ret = "false", !.write.attempt = 0 ]

\* one pass of the while loop of USBTransport._read_loop with the outcome o
\* of in_endpoint.read
UsbReadPass(t, o) ==
    CASE o = "data" -> UsbEmit([ t EXCEPT !.errorCount = 0 ], << "dataReceived" >>)
      [] o = "timeout" -> t
      [] OTHER ->
            LET t1 == [ t EXCEPT !.errorCount = @ + 1 ]
            IN  IF t1.errorCount < MaxUsbReadErrors THEN t1
                ELSE IF ~t1.running THEN [ t1 EXCEPT !.readLoop = "none" ]
                ELSE IF t1.lock = "stuck" THEN [ t1 EXCEPT !.readLoop = "blocked" ]
                ELSE [ DisconnectDevice(t1) EXCEPT !.readLoop = "none" ]

\* USBTransport.start
UsbTransportStart ==
    /\ ~usbTransport.running
    /\ ~usbTransport.mainBlocked
    /\ usbTransport.write.attempt = 0
    /\ usbTransport' = [ UsbStep(usbTransport, "start") EXCEPT !.running = TRUE ]

\* USBTransport.stop
UsbTransportStop ==
    /\ usbTransport.running
    /\ ~usbTransport.mainBlocked
    /\ usbTransport.write.attempt = 0
    /\ LET t == [ UsbStep(usbTransport, "stop") EXCEPT !.running = FALSE ]
       IN  usbTransport' =
             IF t.device.obj = 0 THEN t
             ELSE IF t.lock = "stuck" THEN [ t EXCEPT !.mainBlocked = TRUE ]
             ELSE DisconnectDevice(t)

\* the monitor thread: one pass of _scan_for_devices
UsbScan(raises, ok) ==
    /\ usbTransport.running
    /\ usbTransport.lock = "free"
    /\ usbTransport' = ScanForDevices(UsbStep(usbTransport, "scan"), raises, ok)
    /\ usbTransport'.objects <= MaxObjects

\* the read thread: the loop condition holds and read returns or raises
UsbRecv(o) ==
    /\ usbTransport.readLoop = "loop"
    /\ usbTransport.running
    /\ IsConnected(usbTransport)
    /\ usbTransport' = UsbReadPass(UsbStep(usbTransport, "read"), o)

\* the read thread: the loop condition fails
UsbReadLoopExit ==
    /\ usbTransport.readLoop = "loop"
    /\ ~(usbTransport.running /\ IsConnected(usbTransport))
    /\ usbTransport' = [ UsbStep(usbTransport, "read") EXCEPT !.readLoop = "none" ]

\* the main thread calls USBTransport.write: the check before the loop
UsbWriteCall ==
    /\ ~usbTransport.mainBlocked
    /\ usbTransport.write.attempt = 0
    /\ LET t == [ UsbStep(usbTransport, "write") EXCEPT !.write = NoWrite ]
       IN  usbTransport' =
             IF IsConnected(t)
             THEN [ t EXCEPT !.write.attempt = 1, !.write.ret = "pending" ]
             ELSE [ t EXCEPT !.write.ret = "false" ]

\* the main thread in USBTransport.write: one transfer
UsbWriteAttempt(o) ==
    /\ ~usbTransport.mainBlocked
    /\ usbTransport.write.attempt >= 1
    /\ usbTransport' = WriteAttempt(UsbStep(usbTransport, "write"), o)

\* a device is plugged in, unplugged, or changes mode
UsbBusChange(b) ==
    /\ b # usbTransport.bus
    /\ usbTransport' = [ UsbStep(usbTransport, "bus") EXCEPT !.bus = b ]

UsbInit ==
    /\ MgrInit
    /\ EnvIdle
    /\ CodecIdle
    /\ buffer = << >>
    /\ currentFrames = EmptyDict
    /\ UnitIdle

UsbNext ==
    /\ \/ UsbTransportStart
       \/ UsbTransportStop
       \/ \E raises, ok \in BOOLEAN : UsbScan(raises, ok)
       \/ \E o \in ReadOutcomes : UsbRecv(o)
       \/ UsbReadLoopExit
       \/ UsbWriteCall
       \/ \E o \in TransferOutcomes : UsbWriteAttempt(o)
       \/ \E b \in Buses : UsbBusChange(b)
    /\ UNCHANGED << asmVars, codecVars, mgrVars, envVars, tcpTransport, sslCall, feedCall,
                    timerOwner, writeCall >>

SpecUsb == UsbInit /\ [][UsbNext]_vars

\* the signal sig is among those the last step emitted
Emitted(t, sig) == \E i \in 1..Len(t.emitted) : t.emitted[i] = sig

\* this step is one transfer of a call of write
TransferStep ==
    /\ usbTransport.write.attempt >= 1
    /\ usbTransport'.lastStep = "write"
    /\ usbTransport'.write.transfers = usbTransport.write.transfers + 1

(***************************************************************************)
(* C22  USB write retry: a transfer of write that times out before the     *)
(* third attempt clears the endpoint halt and goes on to the next attempt  *)
(* without any recovery; when the third attempt times out too, write       *)
(* triggers stale-device recovery exactly once and returns False; write    *)
(* returns True only when a transfer wrote all of data; a call on a        *)
(* transport that is not connected returns False without any transfer and  *)
(* without recovery.                                                       *)
(***************************************************************************)
C22_WriteRetry ==
    [][ /\ ( /\ TransferStep
             /\ usbTransport'.write.outcome = "timeout"
             /\ usbTransport.write.attempt < WriteRetries )
            => ( /\ usbTransport'.write.halts = usbTransport.write.halts + 1
                 /\ usbTransport'.write.attempt = usbTransport.write.attempt + 1
                 /\ usbTransport'.write.recoveries = 0
                 /\ usbTransport'.write.ret = "pending" )
        /\ ( /\ TransferStep
             /\ usbTransport'.write.outcome = "timeout"
             /\ usbTransport.write.attempt = WriteRetries )
            => ( /\ usbTransport'.write.transfers = WriteRetries
                 /\ usbTransport'.write.recoveries = 1
                 /\ usbTransport'.write.ret = "false" )
        /\ ( /\ usbTransport'.lastStep = "write"
             /\ usbTransport'.write.ret = "true"
             /\ usbTransport.write.ret # "true" )
            => ( TransferStep /\ usbTransport'.write.outcome = "full" )
        /\ ( /\ usbTransport'.lastStep = "write"
             /\ usbTransport.write.attempt = 0
             /\ usbTransport' # usbTransport
             /\ ~IsConnected(usbTransport) )
            => ( /\ usbTransport'.write.ret = "false"
                 /\ usbTransport'.write.transfers = 0
                 /\ usbTransport'.write.recoveries = 0
                 /\ usbTransport'.failCount = usbTransport.failCount
                 /\ usbTransport'.emitted = << >> ) ]_vars

\* this step runs the stale-device recovery
RecoveryStep ==
    /\ usbTransport'.lastStep = "write"
    /\ usbTransport.write.recoveries = 0
    /\ usbTransport'.write.recoveries = 1

\* this step is a pass of the scan loop with no device held
ScanStep ==
    /\ usbTransport'.lastStep = "scan"
    /\ usbTransport' # usbTransport
    /\ usbTransport.device.obj = 0

(***************************************************************************)
(* C23  Stale-device recovery policy: a recovery increments the failure    *)
(* counter by one; with the counter then at the threshold 3 the error is   *)
(* emitted, and a scan pass with the counter at the threshold emits the    *)
(* error and looks for no device; with the counter then below 3 a bus      *)
(* reset is attempted, the device slot is cleared and DISCONNECTED and     *)
(* deviceDisconnected are emitted.                                         *)
(***************************************************************************)
C23_StaleRecovery ==
    [][ /\ RecoveryStep
            => ( /\ usbTransport'.failCount = usbTransport.failCount + 1
                 /\ usbTransport'.failCount >= MaxAoapFails
                      => Emitted(usbTransport', "error")
                 /\ usbTransport'.failCount < MaxAoapFails
                      => ( /\ usbTransport'.write.resets = 1
                           /\ usbTransport'.device = NoDevice
                           /\ Emitted(usbTransport', "state:disconnected")
                           /\ Emitted(usbTransport', "deviceDisconnected") ) )
        /\ ( ScanStep /\ usbTransport.failCount >= MaxAoapFails )
            => ( /\ usbTransport'.emitted = << "error" >>
                 /\ usbTransport'.device = NoDevice
                 /\ usbTransport'.objects = usbTransport.objects ) ]_vars

(***************************************************************************)
(* C24  The pre-handshake device handle is never reused: the step in which *)
(* START is sent successfully leaves the device slot empty and reports     *)
(* DISCONNECTED last, and a device becomes CONNECTED only in a scan pass   *)
(* that found the slot empty and created a new device object for a device  *)
(* in accessory mode, an object START was never sent to.                   *)
(***************************************************************************)
C24_HandleNotReused ==
    [][ /\ usbTransport'.started # usbTransport.started
            => ( /\ usbTransport'.device = NoDevice
                 /\ usbTransport'.emitted # << >>
                 /\ usbTransport'.emitted[Len(usbTransport'.emitted)] = "state:disconnected" )
        /\ ( IsConnected(usbTransport') /\ ~IsConnected(usbTransport) )
            => ( /\ usbTransport'.lastStep = "scan"
                 /\ usbTransport.device = NoDevice
                 /\ usbTransport'.device.obj = usbTransport.objects + 1
                 /\ usbTransport'.device.aoap
                 /\ usbTransport'.device.obj \notin usbTransport'.started )
        /\ usbTransport'.device.obj \notin usbTransport'.started ]_vars

\* the phone was switched to accessory mode through the first device object
\* and is connected through the second
C24_Witness ==
    /\ usbTransport.started = { 1 }
    /\ IsConnected(usbTransport)
    /\ usbTransport.device.obj = 2

(***************************************************************************)
(* C25  Scan preference: a scan pass with no device held, with both a      *)
(* fresh Android device that answers the protocol-version query and a      *)
(* device in accessory mode present, starts the accessory handshake with   *)
(* the fresh device and does not connect the accessory-mode device; a pass *)
(* connects the accessory-mode device only when no such fresh device is    *)
(* present.                                                                *)
(***************************************************************************)
C25_ScanPreference ==
    [][ /\ ( /\ ScanStep
             /\ usbTransport.bus.fresh = "android"
             /\ usbTransport.bus.aoap )
            => ( /\ Emitted(usbTransport', "state:aoap_handshake")
                 /\ ~usbTransport'.device.aoap
                 /\ ~Emitted(usbTransport', "state:aoap_mode") )
        /\ ( ScanStep /\ Emitted(usbTransport', "state:aoap_mode") )
            => usbTransport.bus.fresh # "android" ]_vars

(***************************************************************************)
(* C34  The USB stale-device back-off is temporary: once a scan pass has   *)
(* sat out the 10 s back-off with the failure counter at the threshold, a  *)
(* scan pass that finds the slot empty and a fresh (non-accessory) phone   *)
(* on the bus detects it, resets the failure counter and starts the        *)
(* accessory handshake.                                                    *)
(***************************************************************************)
C34_BackoffTemporary ==
    [][ ( /\ ScanStep
          /\ usbTransport.waited
          /\ FindAndroidDevice(usbTransport.bus) )
        => ( /\ usbTransport'.failCount = 0
             /\ Emitted(usbTransport', "state:aoap_handshake") ) ]_vars

\* this step is a pass of the scan loop with a device held
HeldScanStep ==
    /\ usbTransport'.lastStep = "scan"
    /\ usbTransport' # usbTransport
    /\ usbTransport.device.obj # 0

(***************************************************************************)
(* C35  Device-loss detection by the USB scan loop does not deadlock: a    *)
(* scan pass with a device held either leaves it in place or, finding that *)
(* it no longer answers, clears the slot and emits DISCONNECTED and        *)
(* deviceDisconnected; it releases the device lock, and no later scan,     *)
(* read-loop disconnect, stale-device recovery or stop() waits for the     *)
(* lock for ever.                                                          *)
(***************************************************************************)
C35_ScanReleasesLock ==
    [][ /\ HeldScanStep
            => /\ usbTransport'.lock = "free"
               /\ \/ usbTransport'.device = usbTransport.device
                  \/ /\ usbTransport'.device = NoDevice
                     /\ Emitted(usbTransport', "state:disconnected")
                     /\ Emitted(usbTransport', "deviceDisconnected")
        /\ usbTransport'.lock = "free"
        /\ ~usbTransport'.mainBlocked
        /\ usbTransport'.readLoop # "blocked" ]_vars

\* the orchestrator's state, its TLS-established flag, its channel
\* bookkeeping and its reassembly state
orchestratorVars ==
    << state, sslEstablished, servicesDiscovered, videoChannelOpen, audioChannelsOpen,
       versionTimer, buffer, currentFrames >>

\* the slots of the transports' signals
SlotOps == { "state", "connected", "disconnected", "data", "error" }

(***************************************************************************)
(* C26  Orchestrator state is mutated by one context only: a step of a     *)
(* transport's scan, connection or read thread leaves the orchestrator's   *)
(* state, TLS-established flag, channel bookkeeping and reassembly state   *)
(* unchanged, feeds and sends nothing, and only appends the signals it     *)
(* emits to the queue; every slot runs on the main thread, takes exactly   *)
(* the signal at the head of the queue, and feeds the assembler at most    *)
(* the bytes of that one signal.                                           *)
(***************************************************************************)
C26_SingleContext ==
    [][ /\ lastOp' = "none"
            => ( /\ UNCHANGED orchestratorVars
                 /\ fed' = << >>
                 /\ sentOut' = << >>
                 /\ Len(events') >= Len(events)
                 /\ SubSeq(events', 1, Len(events)) = events )
        /\ lastOp' \in SlotOps
            => ( /\ events # << >>
                 /\ Head(events).sig = lastOp'
                 /\ events' = Tail(events)
                 /\ fed' \in { << >>, << Head(events).data >> } )
        /\ lastOp' \notin SlotOps
            => fed' = << >> ]_vars

\* a read thread has queued bytes behind another signal while the
\* orchestrator is in a session and the main thread has not run
C26_Witness ==
    /\ lastOp = "none"
    /\ Len(events) = 2
    /\ events[2].sig = "data"
    /\ ~events[2].stale
    /\ state = "ssl_handshake"

(***************************************************************************)
(* A session over TCP in which every connect succeeds and every read       *)
(* returns one or two whole frames: startTcp, the connection thread, the   *)
(* read thread, and the slots of the manager on the main thread            *)
(***************************************************************************)
AudioFrame ==
    CreateFrameData(Msg(CH_MEDIA_AUDIO, 0, << 6 >>, TRUE), DefaultMaxFrameSize)
NavigationFrame ==
    CreateFrameData(Msg(CH_NAVIGATION, 0, << 7 >>, TRUE), DefaultMaxFrameSize)
PhoneStatusFrame ==
    CreateFrameData(Msg(CH_PHONE_STATUS, 0, << 8 >>, TRUE), DefaultMaxFrameSize)
MediaStatusFrame ==
    CreateFrameData(Msg(CH_MEDIA_STATUS, 0, << 9 >>, TRUE), DefaultMaxFrameSize)

\* the frames of the sinks
SinkFrames ==
    { VideoFrame, AudioFrame, NavigationFrame, PhoneStatusFrame, MediaStatusFrame }

SessionFrames == { VersionResponseFrame, SslFrame, DiscoveryResponseFrame } \cup SinkFrames

\* what one read returns: a frame, or a frame of the handshake and the frame
\* that follows it
SessionChunks ==
    SessionFrames \cup { f \o g : f \in SessionFrames \ SinkFrames, g \in SinkFrames }

SessionInit ==
    /\ MgrInit
    /\ buffer = << >>
    /\ currentFrames = EmptyDict
    /\ CodecIdle
    /\ UnitIdle
    /\ events = << >>
    /\ wire = << >>
    /\ budget = MaxSession
    /\ lastOp = "none"
    /\ scripted = OffScript

\* startTcp() once
SessionStart == ~running /\ StartTcp

\* TCPTransport._connection_loop connects
SessionConnect ==
    /\ tcpRunning /\ tcpLoop /\ tcpState # "connected"
    /\ Background([ Cur EXCEPT !.tcpState = "connected", !.attempt = 0 ],
                  << Ev("tcp", "connected", "", << >>) >>, << >>, 1)

\* TCPTransport._read_loop receives a chunk
SessionRead ==
    /\ tcpRunning /\ tcpState = "connected"
    /\ \E chunk \in SessionChunks :
         Background(Cur, << Ev("tcp", "data", "", chunk) >>, << >>, 1)

SessionNext ==
    \/ SessionStart
    \/ SessionConnect
    \/ SessionRead
    \/ TcpClosed
    \/ DeliverStateChanged
    \/ DeliverConnected
    \/ DeliverDisconnected
    \/ DeliverData
    \/ VersionTimeout

SpecSession == SessionInit /\ [][SessionNext]_vars

\* the messages of the sinks as the phone sends them: the frame, the sink
\* and stream the payload is for
SinkMessages ==
    { [ frame |-> VideoFrame, sink |-> "video", stream |-> CH_VIDEO, payload |-> << 5 >> ],
      [ frame |-> AudioFrame, sink |-> "audio", stream |-> CH_MEDIA_AUDIO,
        payload |-> << 6 >> ],
      [ frame |-> NavigationFrame, sink |-> "navigation", stream |-> CH_NAVIGATION,
        payload |-> << 7 >> ],
      [ frame |-> PhoneStatusFrame, sink |-> "phone_status", stream |-> CH_PHONE_STATUS,
        payload |-> << 8 >> ],
      [ frame |-> MediaStatusFrame, sink |-> "media_status", stream |-> CH_MEDIA_STATUS,
        payload |-> << 9 >> ] }

\* the chunk read ends with the frame of m, after nothing or after one whole
\* frame of the handshake
Carries(chunk, m) ==
    \/ chunk = m.frame
    \/ \E f \in SessionFrames \ SinkFrames : chunk = f \o m.frame

\* the payload of m was emitted to its sink, unchanged
ForwardedTo(q, m) ==
    \E i \in 1..Len(q) :
        q[i] = [ sink |-> m.sink, stream |-> m.stream, payload |-> m.payload ]

(***************************************************************************)
(* C27  A message the phone sends on the VIDEO channel is forwarded to the *)
(* video sink and leaves the orchestrator in STREAMING; a message on the   *)
(* audio, navigation, phone-status or media-status channel is forwarded to *)
(* its sink with its payload unchanged, and read on its own leaves the     *)
(* orchestrator state as it was.                                           *)
(***************************************************************************)
C27_ChannelForwarding ==
    [][ DataStep
        => \A m \in SinkMessages :
             LET chunk == Head(events).data
             IN  /\ Carries(chunk, m) => ForwardedTo(forwarded', m)
                 /\ (Carries(chunk, m) /\ m.sink = "video") => state' = "streaming"
                 /\ (chunk = m.frame /\ m.sink # "video") => state' = state ]_vars

AuthCompleteFrame ==
    CreateFrameData(Msg(CH_CONTROL, AUTH_COMPLETE, << >>, FALSE), DefaultMaxFrameSize)

\* SERVICE_DISCOVERY_REQUEST, marked encrypted or not
DiscoveryRequestFrames ==
    { CreateFrameData(Msg(CH_CONTROL, SERVICE_DISCOVERY_REQUEST, << >>, enc),
                      DefaultMaxFrameSize) : enc \in BOOLEAN }

\* this step is the dataReceived slot run on the first chunk of a connection,
\* a version response: the phone has sent no TLS flight on this connection
FirstChunkStep ==
    /\ DataStep
    /\ scripted.stage = "connected"
    /\ IsRawVersionResponse(Head(events).data)

(***************************************************************************)
(* C30  AUTH_COMPLETE and the service-discovery request are sent, and the  *)
(* TLS-established flag is set, only after the TLS handshake of the        *)
(* current connection has completed: the slot run on the version response *)
(* that opens a connection, the phone having sent no TLS flight on it,     *)
(* sends neither and leaves the flag clear, whatever the handshake adapter *)
(* recorded for an earlier connection.                                     *)
(***************************************************************************)
C30_AuthAfterOwnHandshake ==
    [][ FirstChunkStep
        => ( /\ ~sslEstablished'
             /\ \A i \in 1..Len(sentOut') :
                  /\ sentOut'[i].data # AuthCompleteFrame
                  /\ sentOut'[i].data \notin DiscoveryRequestFrames ) ]_vars

(***************************************************************************)
(* The assembler fed the interleaved frame runs of two multi-frame         *)
(* messages (message.py:220-313)                                           *)
(***************************************************************************)
\* a multi-frame message on channel ch: n payload bytes base+1 .. base+n
RunMessage(ch, base, n) ==
    Msg(ch, 258, [ i \in 1..n |-> base + i ], TRUE)

\* the frames create_frame_data writes for m, one byte sequence per frame
FrameRun(m, max_frame_size) ==
    LET frames == ToFrames(m, max_frame_size)
    IN  [ i \in 1..Len(frames) |-> ToBytes(HeaderOf(m, frames, i)) \o frames[i] ]

\* the orders in which the frames of a run of na and a run of nb frames
\* can arrive: p[i] names the run the i-th frame on the wire comes from
Orders(na, nb) ==
    { p \in [ 1..(na + nb) -> {1, 2} ] :
        Cardinality({ i \in 1..(na + nb) : p[i] = 1 }) = na }

RECURSIVE Merge(_, _, _)
\* the bytes on the wire when runs ra and rb arrive in order p
Merge(ra, rb, p) ==
    IF p = << >> THEN << >>
    ELSE IF Head(p) = 1 THEN Head(ra) \o Merge(Tail(ra), rb, Tail(p))
    ELSE Head(rb) \o Merge(ra, Tail(rb), Tail(p))

\* a fresh assembler and the stream it is to be fed: either the interleaved
\* runs of a video and a media-audio message (prefix empty), or a video
\* message preceded by the run, cut before its LAST frame, of another
\* message on the video channel (prefix)
InterleaveInit ==
    /\ MgrInit
    /\ EnvIdle
    /\ UnitIdle
    /\ buffer = << >>
    /\ currentFrames = EmptyDict
    /\ mfs \in 2..MaxFrameSize
    /\ srcMsgs \in
         { << RunMessage(CH_VIDEO, 0, na), RunMessage(CH_MEDIA_AUDIO, 16, nb) >> :
             na \in 1..MaxRun, nb \in 1..MaxRun }
         \cup { << RunMessage(CH_VIDEO, 0, na) >> : na \in 1..MaxRun }
    /\ prefix \in
         IF Len(srcMsgs) = 2 THEN { << >> }
         ELSE { LET run == FrameRun(RunMessage(CH_VIDEO, 32, nb), mfs)
                IN  Join(SubSeq(run, 1, Len(run) - 1)) : nb \in 1..MaxRun }
    /\ rest \in
         IF Len(srcMsgs) = 2
         THEN LET ra == FrameRun(srcMsgs[1], mfs)
                  rb == FrameRun(srcMsgs[2], mfs)
              IN  { Merge(ra, rb, p) : p \in Orders(Len(ra), Len(rb)) }
         ELSE { prefix \o Encode(srcMsgs, mfs) }
    /\ out = << >>
    /\ nFeeds = 0
    /\ hdr = << >>
    /\ hdrTail = << >>
    /\ parsed = << >>

SpecInterleave == InterleaveInit /\ [][CodecNext]_vars

(***************************************************************************)
(* C28  Per-channel reassembly: the assembler holds at most one in-flight  *)
(* multi-frame message per channel (a FIRST frame on a channel replaces    *)
(* that channel's pending list), and in-flight messages on different       *)
(* channels are independent: whatever the interleaving of the frame runs   *)
(* of two multi-frame messages on two channels, once the stream has been   *)
(* fed each message has been reassembled with exactly its own frames in    *)
(* order, and a run abandoned before its LAST frame leaves nothing in the  *)
(* message that follows it on the channel.                                 *)
(***************************************************************************)
Reassembled == { out[i] : i \in 1..Len(out) }

C28_PerChannelReassembly ==
    rest = << >>
    => /\ Len(out) = Len(srcMsgs)
       /\ Reassembled = { srcMsgs[i] : i \in 1..Len(srcMsgs) }

(***************************************************************************)
(* SSLHandler on its own (ssl_handler.py:100-154, 271-314): initialize     *)
(* and process_handshake_data called in any order                          *)
(***************************************************************************)
\* the handshake records handed to process_handshake_data: none, and two
\* flights of the phone
HandshakeInputs == { << >>, << 22 >>, << 22, 3 >> }

\* one call initialize(): ok and need as in SslInitialize
SslInitializeCall(ok, need) ==
    /\ sslCall.calls < MaxCalls
    /\ Commit(SslInitialize(Cur, ok, need))
    /\ sslCall' = [ NoCall EXCEPT !.op = "initialize", !.initialized = sslObject,
                                  !.hello = hsHello, !.ret = ok,
                                  !.calls = sslCall.calls + 1 ]
    /\ UNCHANGED << codecVars, envVars, tcpTransport, usbTransport, feedCall,
                    timerOwner, writeCall >>

\* one call process_handshake_data(data); the phone's flights answer the
\* ClientHello, so there is none for an engine that has not produced it
SslProcessCall(data) ==
    LET r == ProcessHandshakeData(Cur, data)
    IN  /\ sslCall.calls < MaxCalls
        /\ data # << >> => ( ~sslObject \/ hsHello )
        /\ Commit(r.s)
        /\ sslCall' = [ op |-> "process", data |-> data, initialized |-> sslObject,
                        hello |-> hsHello, ret |-> FALSE, raised |-> r.raised,
                        outgoing |-> r.outgoing, complete |-> r.complete,
                        calls |-> sslCall.calls + 1 ]
        /\ UNCHANGED << codecVars, envVars, tcpTransport, usbTransport, feedCall,
                    timerOwner, writeCall >>

SslNext ==
    \/ \E ok \in BOOLEAN, need \in 1..MaxExchanges : SslInitializeCall(ok, need)
    \/ \E data \in HandshakeInputs : SslProcessCall(data)

SpecSsl == Init /\ [][SslNext]_vars

(***************************************************************************)
(* C29  The TLS handshake adapter treats "need more input" and "need to    *)
(* flush output" as non-errors: process_handshake_data on an initialized   *)
(* adapter does not raise; with empty input on a newly initialized adapter *)
(* it returns the initial outgoing bytes with complete = False; while the  *)
(* engine still needs input it returns complete = False; complete = True   *)
(* is returned only once the engine's handshake has finished; and on an    *)
(* adapter that was never initialized the call raises.                     *)
(***************************************************************************)
Processed == sslCall.op = "process"

C29_HandshakeNonErrors ==
    Processed
    => /\ sslCall.raised <=> ~sslCall.initialized
       /\ ( sslCall.initialized /\ ~sslCall.hello /\ sslCall.data = << >> )
            => ( sslCall.outgoing # << >> /\ ~sslCall.complete )
       /\ ( sslCall.initialized /\ hsNeed > 0 ) => ~sslCall.complete
       /\ sslCall.complete => ( sslCall.initialized /\ hsNeed = 0 )

(***************************************************************************)
(* C31  Within one connection AUTH_COMPLETE and SERVICE_DISCOVERY_REQUEST  *)
(* are each sent at most once, whatever control messages arrive: a slot    *)
(* run on received data sends each of them at most once, and sends neither *)
(* when this connection has sent it already.                               *)
(***************************************************************************)
\* the number of writes in q whose bytes are in frames
Writes(q, frames) == Cardinality({ i \in 1..Len(q) : q[i].data \in frames })

C31_AuthSentOnce ==
    [][ DataStep
        => \A frames \in { { AuthCompleteFrame }, DiscoveryRequestFrames } :
             Writes(scripted.sent, frames) + Writes(sentOut', frames) <= 1 ]_vars

(***************************************************************************)
(* MessageAssembler.feed one pass of its loop at a time (message.py:       *)
(* 231-258), on streams that hold frames Message.from_frames rejects       *)
(***************************************************************************)
\* a frame on channel ch: its header as to_bytes writes it, then its payload
PieceOf(ch, ftype, payload, total) ==
    ToBytes([ channel_id |-> ch, frame_type |-> ftype,
              encryption_type |-> PLAIN, message_type |-> SPECIFIC,
              frame_size |-> Len(payload), total_size |-> total ]) \o payload

\* what the streams are made of: BULK frames too short to hold a message
\* id, a BULK frame that holds a message, a FIRST and a LAST frame that
\* together are too short, a MIDDLE frame, a LAST frame on another channel,
\* and a byte of garbage
Pieces ==
    { PieceOf(CH_CONTROL, BULK, << >>, None), PieceOf(CH_CONTROL, BULK, << 9 >>, None),
      PieceOf(CH_CONTROL, BULK, << 0, 11, 7 >>, None),
      PieceOf(CH_CONTROL, FIRST, << >>, 1), PieceOf(CH_CONTROL, LAST, << 9 >>, None),
      PieceOf(CH_CONTROL, MIDDLE, << 9 >>, None),
      PieceOf(CH_VIDEO, LAST, << 0, 11 >>, None), << 255 >> }

RECURSIVE Concat(_)
Concat(ps) == IF ps = << >> THEN << >> ELSE Head(ps) \o Concat(Tail(ps))

ResyncStreams ==
    { Concat(ps) : ps \in UNION { [ 1..n -> Pieces ] : n \in 1..MaxPieces } }

ResyncInit ==
    /\ MgrInit
    /\ EnvIdle
    /\ UnitIdle
    /\ buffer = << >>
    /\ currentFrames = EmptyDict
    /\ srcMsgs = << >>
    /\ mfs = DefaultMaxFrameSize
    /\ prefix = << >>
    /\ rest \in ResyncStreams
    /\ out = << >>
    /\ nFeeds = 0
    /\ hdr = << >>
    /\ hdrTail = << >>
    /\ parsed = << >>

\* buf starts with a whole MIDDLE or LAST frame of a channel that has no
\* pending list in cf
OrphanFrame(buf, cf) ==
    /\ Len(buf) >= 4
    /\ LET h == FromBytes(buf)
       IN  /\ Len(buf) >= h.consumed + h.frame_size
           /\ h.frame_type \in { MIDDLE, LAST }
           /\ h.channel_id \notin DOMAIN cf

\* feed(data) is called with the next k bytes: self._buffer += data
FeedEnter(k) ==
    /\ feedCall.pc = "idle"
    /\ buffer' = buffer \o Slice(rest, 0, k)
    /\ rest' = From(rest, k)
    /\ nFeeds' = IF nFeeds < 2 THEN nFeeds + 1 ELSE nFeeds
    /\ feedCall' = [ pc |-> "loop", size |-> Len(buffer'), passes |-> 0,
                     last |-> "none", orphan |-> FALSE ]
    /\ UNCHANGED << currentFrames, srcMsgs, mfs, prefix, out, hdr, hdrTail, parsed,
                    mgrVars, envVars, tcpTransport, usbTransport, sslCall,
                    timerOwner, writeCall >>

\* a pass of the loop in which a MIDDLE or LAST frame with nothing pending
\* opens a pending list on its channel
FeedPassAdoptsOrphan ==
    /\ feedCall.pc = "loop"
    /\ LET r == TryExtractMessage(buffer, currentFrames)
           skipped == From(r.buffer, 1)
       IN  /\ buffer' = IF r.tag = "error" THEN skipped ELSE r.buffer
           /\ currentFrames' = IF OrphanFrame(buffer, currentFrames)
                               THEN DictSet(r.frames, buffer[1], << >>)
                               ELSE r.frames
           /\ out' = IF r.tag = "msg" THEN Append(out, r.msg) ELSE out
           /\ feedCall' =
                [ feedCall EXCEPT
                    !.pc = IF r.tag = "msg" \/ (r.tag = "error" /\ skipped # << >>)
                           THEN "loop" ELSE "idle",
                    !.passes = @ + 1,
                    !.last = r.tag,
                    !.orphan = OrphanFrame(buffer, currentFrames) ]
    /\ UNCHANGED << srcMsgs, mfs, prefix, rest, nFeeds, hdr, hdrTail, parsed,
                    mgrVars, envVars, tcpTransport, usbTransport, sslCall,
                    timerOwner, writeCall >>

\* one pass of the while loop of feed: a message is appended, or the loop
\* breaks on None, or the except clause skips a byte and breaks only when
\* nothing is left
FeedPass ==
    /\ feedCall.pc = "loop"
    /\ LET r == TryExtractMessage(buffer, currentFrames)
           skipped == From(r.buffer, 1)
       IN  /\ buffer' = IF r.tag = "error" THEN skipped ELSE r.buffer
           /\ currentFrames' = r.frames
           /\ out' = IF r.tag = "msg" THEN Append(out, r.msg) ELSE out
           /\ feedCall' =
                [ feedCall EXCEPT
                    !.pc = IF r.tag = "msg" \/ (r.tag = "error" /\ skipped # << >>)
                           THEN "loop" ELSE "idle",
                    !.passes = @ + 1,
                    !.last = r.tag,
                    !.orphan = OrphanFrame(buffer, currentFrames) ]
    /\ UNCHANGED << srcMsgs, mfs, prefix, rest, nFeeds, hdr, hdrTail, parsed,
                    mgrVars, envVars, tcpTransport, usbTransport, sslCall,
                    timerOwner, writeCall >>

ResyncNext ==
    \/ \E k \in 1..Len(rest) : FeedEnter(k)
    \/ FeedPass

SpecResync == ResyncInit /\ [][ResyncNext]_vars

(***************************************************************************)
(* C32  Assembler resynchronization: a pass of feed's loop that meets a    *)
(* parse error discards exactly one leading byte of the buffer and the     *)
(* loop goes on, unless the buffer is then empty; every call of feed       *)
(* terminates: a pass after which the loop goes on has shortened the       *)
(* buffer, and a call makes no more passes than the buffer had bytes, plus *)
(* the one that ends it.                                                   *)
(***************************************************************************)
PassStep == feedCall.pc = "loop" /\ feedCall'.passes = feedCall.passes + 1

C32_Resynchronization ==
    [][ PassStep
        => /\ feedCall'.last = "error"
                => /\ buffer' = From(buffer, 1)
                   /\ feedCall'.pc = "loop" <=> buffer' # << >>
           /\ feedCall'.pc = "loop" => Len(buffer') < Len(buffer)
           /\ feedCall'.passes <= feedCall.size + 1 ]_vars

TimerInit == Init

\* the active transport holds a connection
TransportUp(s) ==
    IF s.transportMode = "usb" THEN [ s EXCEPT !.usbDevice = "connected" ]
    ELSE [ s EXCEPT !.tcpState = "connected" ]

\* the active transport loses its connection and emits stateChanged and
\* deviceDisconnected
TransportDown(s) ==
    IF s.transportMode = "usb" THEN UsbDisconnectDevice(s)
    ELSE OnDeviceDisconnected(
             OnTcpStateChanged([ s EXCEPT !.tcpState = "disconnected" ], "disconnected"))

\* a step of the main thread that ran op, reached s and left the timer owner
TimerStep(op, s, owner) ==
    /\ ~blocked
    /\ Commit(s)
    /\ lastOp' = op
    /\ timerOwner' = owner
    /\ UNCHANGED << codecVars, events, wire, budget, scripted, tcpTransport,
                    usbTransport, sslCall, feedCall, writeCall >>

\* the owner of the pending timer after a step that created none
OwnerKept(s) ==
    [ timerOwner EXCEPT !.armedFor = IF s.versionTimer = "active" THEN @ ELSE 0 ]

\* a call of stop(), startUsb() or startTcp() by the application
TimerCall(name) ==
    LET s == Called(name, Cur)
    IN  TimerStep(name, s, OwnerKept(s))

\* deviceConnected: _on_device_connected; the QTimer is created, and the
\* one before it dropped, only when _send_version_request returns
TimerConnected ==
    /\ running
    /\ ~ConnUp(Cur)
    /\ timerOwner.conn < MaxConnections
    /\ \E raises \in WriteOutcomes :
         LET s == OnDeviceConnected([ TransportUp(Cur) EXCEPT !.writeRaises = raises ])
             n == timerOwner.conn + 1
         IN  TimerStep("connected", s,
                       [ conn |-> n,
                         armedFor |-> IF s.exc THEN timerOwner.armedFor ELSE n ])

\* deviceDisconnected: _on_device_disconnected
TimerDisconnected ==
    /\ ConnUp(Cur)
    /\ LET s == TransportDown(Cur)
       IN  TimerStep("disconnected", s, OwnerKept(s))

\* dataReceived with the version response, which _on_data_received hands
\* to _handle_version_response_raw
TimerVersionResponse ==
    /\ ConnUp(Cur)
    /\ IsRawVersionResponse(VersionResponseFrame)
    /\ \E ok \in BOOLEAN, need \in 1..MaxExchanges, raises \in WriteOutcomes :
         LET s == HandleVersionResponseRaw([ Cur EXCEPT !.writeRaises = raises ],
                                           ok, need)
         IN  TimerStep("data", s, OwnerKept(s))

\* the pending QTimer expires: _on_version_timeout
TimerExpires ==
    /\ versionTimer = "active"
    /\ LET s == OnVersionTimeout([ Cur EXCEPT !.versionTimer = "fired" ])
       IN  TimerStep("timeout", s, OwnerKept(s))

TimerStartUsb ==
    /\ ~blocked
    /\ TimerCall("startUsb")

TimerStartTcp ==
    /\ ~blocked
    /\ TimerCall("startTcp")

TimerStop ==
    /\ ~blocked
    /\ TimerCall("stop")

TimerNext ==
    \/ TimerStartUsb
    \/ TimerStartTcp
    \/ TimerStop
    \/ TimerConnected
    \/ TimerDisconnected
    \/ TimerVersionResponse
    \/ TimerExpires

SpecTimer == TimerInit /\ [][TimerNext]_vars

\* this step is the expiry of a timer created for an earlier connection
\* than the last one reported
EarlierExpiryStep ==
    /\ versionTimer = "active"
    /\ versionTimer' = "fired"
    /\ timerOwner.armedFor < timerOwner.conn

(***************************************************************************)
(* C38  Version-response timer: a timeout armed for an earlier connection  *)
(* never fires against a later one: when the timer of an earlier           *)
(* connection expires after a new connection was reported, the expiry      *)
(* emits no error, triggers no stale-device recovery and leaves the state  *)
(* of the new connection as it is.                                         *)
(***************************************************************************)
C38_TimerOfItsConnection ==
    [][ EarlierExpiryStep
        => /\ errorsOut' = << >>
           /\ aoapFailCount' = aoapFailCount
           /\ usbDevice' = usbDevice
           /\ state' = state ]_vars

(***************************************************************************)
(* TCPTransport.write on its own, one send per step, while the connection  *)
(* thread and the read thread make and drop the connection.                *)
(***************************************************************************)
WriteInit == Init

\* what socket.send does with what is left of data: it raises, or returns
\* the number of bytes it accepted, 0 on a broken connection
SendOutcomes(left) ==
    { [ raised |-> TRUE, sent |-> 0 ] }
      \cup { [ raised |-> FALSE, sent |-> k ] : k \in 0..left }

\* TCPTransport.is_connected
WriteIsConnected(w) == w.state = "connected" /\ w.socket

\* a step of TCPTransport.write that leaves the call as w
WriteStep(w) ==
    /\ writeCall' = w
    /\ UNCHANGED << asmVars, codecVars, mgrVars, envVars, tcpTransport, usbTransport,
                    sslCall, feedCall, timerOwner >>

\* the connection thread in _connect (socket created, connect() succeeds or
\* fails) and the read thread in _disconnect (socket forgotten, then the
\* state set), none of which waits for a write under way
WriteTransport ==
    LET w == [ writeCall EXCEPT !.step = "transport" ]
    IN  \/ /\ w.state = "disconnected" /\ ~w.socket
           /\ WriteStep([ w EXCEPT !.state = "connecting" ])
        \/ /\ w.state = "connecting" /\ ~w.socket
           /\ WriteStep([ w EXCEPT !.socket = TRUE ])
        \/ /\ w.state = "connecting" /\ w.socket
           /\ \E ok \in BOOLEAN :
                WriteStep(IF ok THEN [ w EXCEPT !.state = "connected" ]
                          ELSE [ w EXCEPT !.socket = FALSE ])
        \/ /\ w.state = "connected" /\ w.socket
           /\ WriteStep([ w EXCEPT !.socket = FALSE ])
        \/ /\ w.state # "disconnected" /\ ~w.socket
           /\ WriteStep([ w EXCEPT !.state = "disconnected" ])

\* write(data) with len(data) = n: the check before the loop, and the loop
\* left at once when data is empty
WriteEnter(n) ==
    /\ writeCall.pc # "loop"
    /\ LET w == [ writeCall EXCEPT !.size = n, !.totalSent = 0, !.sends = 0,
                                   !.last = "none", !.step = "enter" ]
       IN  WriteStep(IF ~WriteIsConnected(w) \/ ~w.socket
                     THEN [ w EXCEPT !.pc = "done", !.ret = "false" ]
                     ELSE IF n = 0 THEN [ w EXCEPT !.pc = "done", !.ret = "true" ]
                     ELSE [ w EXCEPT !.pc = "loop", !.ret = "none" ])

\* a pass of the loop in which a send that accepts nothing is not an error
WriteSendIgnoresZero(o) ==
    /\ writeCall.pc = "loop"
    /\ o \in SendOutcomes(writeCall.size - writeCall.totalSent)
    /\ ~writeCall.socket => o.raised
    /\ LET w == [ writeCall EXCEPT !.sends = @ + 1, !.step = "send" ]
       IN  WriteStep(
             IF o.raised
             THEN [ w EXCEPT !.last = "raised", !.pc = "done", !.ret = "false" ]
             ELSE IF o.sent = 0
             THEN [ w EXCEPT !.last = "zero" ]
             ELSE LET total == w.totalSent + o.sent
                  IN  IF total < w.size
                      THEN [ w EXCEPT !.last = "accepted", !.totalSent = total ]
                      ELSE [ w EXCEPT !.last = "accepted", !.totalSent = total,
                                      !.pc = "done", !.ret = "true" ])

\* a pass of the while loop of write with the outcome o of socket.send;
\* send on a _socket that is None raises; every exception is caught
WriteSend(o) ==
    /\ writeCall.pc = "loop"
    /\ o \in SendOutcomes(writeCall.size - writeCall.totalSent)
    /\ ~writeCall.socket => o.raised
    /\ LET w == [ writeCall EXCEPT !.sends = @ + 1, !.step = "send" ]
       IN  WriteStep(
             IF o.raised
             THEN [ w EXCEPT !.last = "raised", !.pc = "done", !.ret = "false" ]
             ELSE IF o.sent = 0
             THEN [ w EXCEPT !.last = "zero", !.pc = "done", !.ret = "false" ]
             ELSE LET total == w.totalSent + o.sent
                  IN  IF total < w.size
                      THEN [ w EXCEPT !.last = "accepted", !.totalSent = total ]
                      ELSE [ w EXCEPT !.last = "accepted", !.totalSent = total,
                                      !.pc = "done", !.ret = "true" ])

WriteNext ==
    \/ WriteTransport
    \/ \E n \in 0..MaxData : WriteEnter(n)
    \/ \E o \in SendOutcomes(MaxData) : WriteSend(o)

SpecWrite == WriteInit /\ [][WriteNext]_vars

\* this step is the entry of a call of write
WriteEnterStep == writeCall.pc # "loop" /\ writeCall'.step = "enter"

\* this step is one send of a call of write
WriteSendStep ==
    /\ writeCall.pc = "loop"
    /\ writeCall'.step = "send"
    /\ writeCall'.sends = writeCall.sends + 1

(***************************************************************************)
(* C39  TCPTransport.write: on a connected socket it keeps sending until   *)
(* every byte of data has been accepted and then returns True; a send      *)
(* that accepts zero bytes or raises ends the call at once with False;     *)
(* on a transport that is not connected it returns False without a send.   *)
(***************************************************************************)
C39_WriteContract ==
    [][ /\ ( WriteEnterStep /\ ~WriteIsConnected(writeCall) )
            => /\ writeCall'.pc = "done"
               /\ writeCall'.ret = "false"
               /\ writeCall'.sends = 0
        /\ ( WriteEnterStep /\ WriteIsConnected(writeCall) )
            => /\ writeCall'.pc = "loop" <=> writeCall'.size > 0
               /\ writeCall'.pc = "done" => writeCall'.ret = "true"
        /\ WriteSendStep
            => /\ writeCall'.last \in { "zero", "raised" }
                    => /\ writeCall'.pc = "done"
                       /\ writeCall'.ret = "false"
                       /\ writeCall'.totalSent = writeCall.totalSent
               /\ writeCall'.last = "accepted"
                    => /\ writeCall'.totalSent > writeCall.totalSent
                       /\ writeCall'.pc = "loop"
                            <=> writeCall'.totalSent < writeCall.size
                       /\ writeCall'.pc = "done" => writeCall'.ret = "true"
        /\ writeCall'.ret = "true" => writeCall'.totalSent = writeCall'.size ]_vars

\* a call that returned True after a send that accepted only part of data
C39_Witness ==
    /\ writeCall.pc = "done"
    /\ writeCall.ret = "true"
    /\ writeCall.sends >= 2
    /\ writeCall.size = MaxData

====
